---- MODULE Spec2Model ----
(***************************************************************************)
(* Model of coolify-cli's log engine: the `logs` command (one-shot and     *)
(* follow mode, cmd/logs.go), the line classifier and the timestamp        *)
(* extractor (client/client.go) and the formatter's request-id slice       *)
(* (internal/formatter).                                                   *)
(*                                                                         *)
(* Text is modelled as a sequence of tokens.  A token is a TLA+ string     *)
(* that stands for a maximal lexical unit of the Go string: one            *)
(* whitespace character (" ", "\n"), one punctuation character, a run of   *)
(* digits, a word, a URL or a whole timestamp.  The Go string is the       *)
(* concatenation of its tokens; regular expressions are matched token by   *)
(* token.                                                                  *)
(***************************************************************************)
EXTENDS Integers, Sequences, FiniteSets, TLC

\* ------------------------------------------------------------------------
\* Bounds of the model
\* ------------------------------------------------------------------------
MaxLines == 4
MaxTail == 2
MaxLineLen == 3
MaxClock == 1
MaxTokenLen == 9
MaxApps == 2
MaxInstances == 3

\* ------------------------------------------------------------------------
\* strings: TrimSpace, Split, Join, Contains
\* ------------------------------------------------------------------------
NL == "\n"

ESC == "\\x1b"

IsSpace(c) == c \in {" ", "\t", "\n", "\r"}

RECURSIVE TrimLeft(_)
TrimLeft(s) ==
    IF s = <<>> THEN s
    ELSE IF IsSpace(Head(s)) THEN TrimLeft(Tail(s)) ELSE s

RECURSIVE TrimRight(_)
TrimRight(s) ==
    IF s = <<>> THEN s
    ELSE IF IsSpace(s[Len(s)]) THEN TrimRight(SubSeq(s, 1, Len(s) - 1)) ELSE s

\* strings.TrimSpace
TrimSpace(s) == TrimRight(TrimLeft(s))

\* the position of the first "\n" of s from p on, 0 when there is none
RECURSIVE IndexNL(_, _)
IndexNL(s, p) ==
    IF p > Len(s) THEN 0 ELSE IF s[p] = NL THEN p ELSE IndexNL(s, p + 1)

\* strings.Split(s, "\n"): never empty, Split("") = [""]
RECURSIVE Split(_)
RECURSIVE SplitAt(_, _)
SplitAt(s, i) ==
    IF i = 0 THEN << s >>
    ELSE << SubSeq(s, 1, i - 1) >> \o Split(SubSeq(s, i + 1, Len(s)))

Split(s) == SplitAt(s, IndexNL(s, 1))

\* strings.Join(ls, "\n")
RECURSIVE Join(_)
Join(ls) ==
    IF ls = <<>> THEN <<>>
    ELSE IF Len(ls) = 1 THEN ls[1]
    ELSE ls[1] \o << NL >> \o Join(Tail(ls))

\* strings.Contains(s, sub)
Contains(s, sub) ==
    \E i \in 0..(Len(s) - Len(sub)) : SubSeq(s, i + 1, i + Len(sub)) = sub

\* len(s) of a Go string: the characters of its tokens
RECURSIVE StrLen(_)
StrLen(s) == IF s = <<>> THEN 0 ELSE Len(Head(s)) + StrLen(Tail(s))

Max(S) == CHOOSE x \in S : \A y \in S : y <= x


Min2(a, b) == IF a < b THEN a ELSE b

\* ------------------------------------------------------------------------
\* regexp: patterns are sequences of atoms matched token by token.
\*   k = "lit": the token v itself;  k = "cls": any token of the class v
\*   q: "1" once, "?" optional, "*" any number, "+" at least once (greedy)
\*   g: the capture group the matched tokens belong to (0: none)
\* ------------------------------------------------------------------------
DigitTokens == {"0", "3", "4", "18", "200", "404", "1705329045"}

HexWordTokens == {"abc123", "deadbeef-0001", "def456"}

VerbTokens == {"GET", "POST", "PUT", "DELETE", "PATCH"}

UrlTokens == {"http://x/y"}

InClass(t, c) ==
    CASE c = "digits"   -> t \in DigitTokens
      [] c = "hex"      -> t \in HexWordTokens \cup DigitTokens \cup {"-", "a", "b"}
      [] c = "verb"     -> t \in VerbTokens
      [] c = "url"      -> t \in UrlTokens
      [] c = "nonspace" -> ~IsSpace(t)
      [] c = "any"      -> t /= NL
      [] c = "space"    -> IsSpace(t)
      [] c = "ansiarg"  -> t \in DigitTokens \cup {";"}
      [] OTHER          -> FALSE

Lit(t) == [k |-> "lit", v |-> t, q |-> "1", g |-> 0]

Cls(c, q, g) == [k |-> "cls", v |-> c, q |-> q, g |-> g]

AtomMatches(a, t) == IF a.k = "lit" THEN t = a.v ELSE InClass(t, a.v)

\* number of consecutive tokens of s from position p that the atom accepts
RECURSIVE RunLen(_, _, _)
RunLen(a, s, p) ==
    IF p > Len(s) THEN 0
    ELSE IF AtomMatches(a, s[p]) THEN 1 + RunLen(a, s, p + 1) ELSE 0

NoCaps == [g \in 1..6 |-> <<>>]

\* atoms k.. of pat against s from position p.  A repeated atom takes every
\* token it accepts: in each pattern below the atom that follows a repeated
\* class is a literal outside that class, so no shorter repetition can match
\* and the greedy match is the only one.
RECURSIVE MatchFrom(_, _, _, _, _)
RECURSIVE MatchAtom(_, _, _, _, _, _)
MatchAtom(pat, k, s, p, caps, take) ==
    IF take < (IF pat[k].q \in {"1", "+"} THEN 1 ELSE 0)
    THEN [ok |-> FALSE, caps |-> caps]
    ELSE MatchFrom(pat, k + 1, s, p + take,
             IF pat[k].g = 0 THEN caps
             ELSE [caps EXCEPT ![pat[k].g] = @ \o SubSeq(s, p, p + take - 1)])

MatchFrom(pat, k, s, p, caps) ==
    IF k > Len(pat) THEN [ok |-> TRUE, caps |-> caps]
    ELSE MatchAtom(pat, k, s, p, caps,
                   IF pat[k].q \in {"1", "?"}
                   THEN Min2(1, RunLen(pat[k], s, p))
                   ELSE RunLen(pat[k], s, p))

\* the leftmost position from p on at which pat matches
RECURSIVE FindFrom(_, _, _)
RECURSIVE FirstMatch(_, _, _, _)
FirstMatch(r, pat, s, p) == IF r.ok THEN r ELSE FindFrom(pat, s, p + 1)

FindFrom(pat, s, p) ==
    IF p > Len(s) + 1 THEN [ok |-> FALSE, caps |-> NoCaps]
    ELSE FirstMatch(MatchFrom(pat, 1, s, p, NoCaps), pat, s, p)

\* regexp.FindStringSubmatch of an unanchored pattern: leftmost match
FindStringSubmatch(pat, s) == FindFrom(pat, s, 1)

\* regexp.FindStringSubmatch of a pattern that starts with ^
FindAtStart(pat, s) == MatchFrom(pat, 1, s, 1, NoCaps)

\* `INFO \((\d+)\): ` the prefix shared by the INFO patterns
InfoPrefix ==
    << Lit("INFO"), Lit(" "), Lit("("), Cls("digits", "+", 1), Lit(")"),
       Lit(":"), Lit(" ") >>

httpRequestPattern ==
    InfoPrefix \o
    << Cls("hex", "+", 2), Lit(" "), Cls("verb", "1", 3), Lit(" "),
       Cls("url", "1", 4), Cls("nonspace", "*", 4), Lit(" "), Lit("-"), Lit(" "),
       Cls("digits", "+", 5), Lit(" "), Lit("query"), Lit(" "), Lit("params,"),
       Lit(" "), Cls("digits", "+", 6), Lit(" "), Lit("body"), Lit(" "),
       Lit("keys") >>

httpResponsePattern ==
    InfoPrefix \o
    << Cls("hex", "+", 2), Lit(" "), Lit("Response:"), Lit(" "),
       Cls("digits", "+", 3) >>

authPattern ==
    InfoPrefix \o
    << Cls("hex", "+", 2), Lit(" "), Lit("Auth"), Lit(" "), Lit("via"),
       Lit(" "), Lit("Bearer"), Lit(" "), Lit("Token") >>

genericInfoPattern ==
    InfoPrefix \o << Cls("hex", "+", 2), Lit(" "), Cls("any", "+", 3) >>

\* `^\s*traceId: "([a-f0-9-]+)"`
traceIdPattern ==
    << [k |-> "cls", v |-> "space", q |-> "*", g |-> 0], Lit("traceId:"),
       Lit(" "), Lit("\""), Cls("hex", "+", 1), Lit("\"") >>

simpleInfoPattern == InfoPrefix \o << Cls("any", "+", 2) >>

\* `\x1b\[[0-9;]*m`: length of the match that starts at position p, 0 if none;
\* n is the number of tokens of [0-9;]* after the bracket
AnsiEnd(s, p, n) ==
    IF p + 2 + n <= Len(s) /\ s[p + 2 + n] = "m" THEN n + 3 ELSE 0

AnsiMatchLen(s, p) ==
    IF p + 1 <= Len(s) /\ s[p] = ESC /\ s[p + 1] = "["
    THEN AnsiEnd(s, p, RunLen(Cls("ansiarg", "*", 0), s, p + 2))
    ELSE 0

\* ansiRegex.ReplaceAllString(s, ""): from position p on, a match of n tokens
\* there (n = 0: none)
RECURSIVE StripFrom(_, _)
RECURSIVE StripMatch(_, _, _)
StripMatch(s, p, n) ==
    IF n > 0 THEN StripFrom(s, p + n) ELSE << s[p] >> \o StripFrom(s, p + 1)

StripFrom(s, p) ==
    IF p > Len(s) THEN <<>> ELSE StripMatch(s, p, AnsiMatchLen(s, p))

StripAnsi(s) == StripFrom(s, 1)

\* ------------------------------------------------------------------------
\* extractTimestamp.  A timestamp written with a T is one token; its shape
\* (fraction digits, trailing Z, numeric offset, fields in range) is what the
\* regular expressions and time.Parse look at.
\* ------------------------------------------------------------------------
IsoTokens ==
    {"2025-08-19T06:49:35.131504808Z", "2024-01-15T14:30:45.123456Z",
     "2024-01-15T14:30:45.123456", "2024-01-15T14:30:45.123Z",
     "2024-01-15T14:30:45Z", "2024-01-15T14:30:45",
     "2024-01-15T14:30:45+00:00", "2024-13-45T99:99:99Z"}

IsoFrac(t) ==
    CASE t = "2025-08-19T06:49:35.131504808Z" -> 9
      [] t \in {"2024-01-15T14:30:45.123456Z", "2024-01-15T14:30:45.123456"} -> 6
      [] t = "2024-01-15T14:30:45.123Z" -> 3
      [] OTHER -> 0

IsoZ(t) ==
    t \in {"2025-08-19T06:49:35.131504808Z", "2024-01-15T14:30:45.123456Z",
           "2024-01-15T14:30:45.123Z", "2024-01-15T14:30:45Z",
           "2024-13-45T99:99:99Z"}

IsoTz(t) == t = "2024-01-15T14:30:45+00:00"

DateTokens == {"2024-01-15", "2024-13-45"}

SlashDateTokens == {"2024/01/15"}

TimeTokens == {"14:30:45"}

MonthTokens == {"Jan", "Xyz"}

\* the date the text denotes, "" when a field is out of range (time.Parse fails)
DateOf(t) ==
    CASE t = "2025-08-19T06:49:35.131504808Z" -> "2025-08-19"
      [] t \in IsoTokens \ {"2025-08-19T06:49:35.131504808Z",
                            "2024-13-45T99:99:99Z"} -> "2024-01-15"
      [] t \in {"2024-01-15", "2024/01/15", "1705329045"} -> "2024-01-15"
      [] OTHER -> ""

ClockOf(t) ==
    CASE t = "2025-08-19T06:49:35.131504808Z" -> "06:49:35"
      [] OTHER -> "14:30:45"

\* time.Time.Format("2006-01-02 15:04:05")
Canonical(date, clock) == << date, " ", clock >>

\* time.Now(): the wall clock is `now` seconds after 2026-11-03 10:00:00
NowDate(now) == "2026-11-03"

NowClock(now) == "10:00:0" \o ToString(now)

NowYear(now) == "2026"

\* the ten entries of timestampPatterns, in list order
timestampPatterns ==
    << [kind |-> "iso", frac |-> 9, zreq |-> TRUE, tz |-> FALSE],
       [kind |-> "iso", frac |-> 6, zreq |-> FALSE, tz |-> FALSE],
       [kind |-> "iso", frac |-> 3, zreq |-> FALSE, tz |-> FALSE],
       [kind |-> "iso", frac |-> 0, zreq |-> FALSE, tz |-> FALSE],
       [kind |-> "iso", frac |-> 0, zreq |-> FALSE, tz |-> TRUE],
       [kind |-> "docker", frac |-> 0, zreq |-> FALSE, tz |-> FALSE],
       [kind |-> "syslog", frac |-> 0, zreq |-> FALSE, tz |-> FALSE],
       [kind |-> "unix", frac |-> 0, zreq |-> FALSE, tz |-> FALSE],
       [kind |-> "bracket", frac |-> 0, zreq |-> FALSE, tz |-> FALSE],
       [kind |-> "slash", frac |-> 0, zreq |-> FALSE, tz |-> FALSE] >>

NoCapture == [ok |-> FALSE, toks |-> <<>>, frac |-> 0, z |-> FALSE, tz |-> FALSE]

Captured(toks, frac, z, tz) ==
    [ok |-> TRUE, toks |-> toks, frac |-> frac, z |-> z, tz |-> tz]

\* pattern.regex.FindStringSubmatch(line): the text of group 1 and its shape
TsRegexMatch(pt, line) ==
    LET n == Len(line)
        t == IF n >= 1 THEN line[1] ELSE ""
    IN  CASE pt.kind = "iso" /\ pt.tz ->
               IF t \in IsoTokens /\ IsoFrac(t) = 0 /\ IsoTz(t)
               THEN Captured(<< t >>, 0, FALSE, TRUE) ELSE NoCapture
          [] pt.kind = "iso" /\ ~pt.tz ->
               IF /\ t \in IsoTokens
                  /\ IsoFrac(t) >= pt.frac
                  /\ pt.zreq => (IsoFrac(t) = pt.frac /\ IsoZ(t))
               THEN Captured(<< t >>, pt.frac, IsoFrac(t) = pt.frac /\ IsoZ(t), FALSE)
               ELSE NoCapture
          [] pt.kind = "docker" ->
               IF n >= 3 /\ t \in DateTokens /\ line[2] = " " /\ line[3] \in TimeTokens
               THEN Captured(SubSeq(line, 1, 3), 0, FALSE, FALSE) ELSE NoCapture
          [] pt.kind = "syslog" ->
               IF /\ n >= 5 /\ t \in MonthTokens /\ line[2] = " "
                  /\ line[3] \in DigitTokens /\ Len(line[3]) <= 2
                  /\ line[4] = " " /\ line[5] \in TimeTokens
               THEN Captured(SubSeq(line, 1, 5), 0, FALSE, FALSE) ELSE NoCapture
          [] pt.kind = "unix" ->
               IF /\ n >= 3 /\ t = "[" /\ line[2] \in DigitTokens
                  /\ Len(line[2]) = 10 /\ line[3] = "]"
               THEN Captured(<< line[2] >>, 0, FALSE, FALSE) ELSE NoCapture
          [] pt.kind = "bracket" ->
               IF /\ n >= 5 /\ t = "[" /\ line[2] \in DateTokens /\ line[3] = " "
                  /\ line[4] \in TimeTokens /\ line[5] = "]"
               THEN Captured(SubSeq(line, 2, 4), 0, FALSE, FALSE) ELSE NoCapture
          [] pt.kind = "slash" ->
               IF /\ n >= 3 /\ t \in SlashDateTokens /\ line[2] = " "
                  /\ line[3] \in TimeTokens
               THEN Captured(SubSeq(line, 1, 3), 0, FALSE, FALSE) ELSE NoCapture
          [] OTHER -> NoCapture

SyslogMonth(m) == IF m = "Jan" THEN "01" ELSE ""

SyslogDay(d) ==
    CASE d = "3" -> "03" [] d = "4" -> "04" [] d = "18" -> "18" [] OTHER -> ""

\* a parse that accepts whatever the expression captured
TsParseUnchecked(pt, cap) == Canonical(DateOf(cap.toks[1]), ClockOf(cap.toks[1]))

\* time.Parse(pattern.layout, timestampStr) followed by Format: the canonical
\* text, <<>> when Parse returns an error.  The layouts of the first four
\* patterns end with a literal Z and hold exactly pt.frac fraction digits.
TsParse(pt, cap) ==
    CASE pt.kind = "iso" ->
             IF /\ cap.frac = pt.frac
                /\ cap.tz = pt.tz
                /\ cap.z = ~pt.tz
                /\ DateOf(cap.toks[1]) /= ""
             THEN Canonical(DateOf(cap.toks[1]), ClockOf(cap.toks[1])) ELSE <<>>
      [] pt.kind = "syslog" ->
             \* the layout "Jan 2 15:04:05" has no year: the year parsed is 0
             IF SyslogMonth(cap.toks[1]) /= "" /\ SyslogDay(cap.toks[3]) /= ""
             THEN Canonical("0000-" \o SyslogMonth(cap.toks[1]) \o "-"
                                \o SyslogDay(cap.toks[3]), cap.toks[5])
             ELSE <<>>
      [] OTHER ->
             IF DateOf(cap.toks[1]) /= ""
             THEN Canonical(DateOf(cap.toks[1]), cap.toks[3]) ELSE <<>>

\* time.Parse("2006 Jan 2 15:04:05", currentYear + " " + timestampStr)
TsParseWithYear(cap, year) ==
    IF SyslogMonth(cap.toks[1]) /= "" /\ SyslogDay(cap.toks[3]) /= ""
    THEN Canonical(year \o "-" \o SyslogMonth(cap.toks[1]) \o "-"
                       \o SyslogDay(cap.toks[3]), cap.toks[5])
    ELSE <<>>

\* the loop over timestampPatterns from entry i on, then the fall back to now
RECURSIVE TsFrom(_, _, _)
RECURSIVE TsEntry(_, _, _, _, _)
RECURSIVE TsParsed(_, _, _, _, _)
\* lines 592-604: parsed is what time.Parse and Format gave for entry i
TsParsed(i, line, now, cap, parsed) ==
    IF parsed /= <<>> THEN parsed
    ELSE IF /\ timestampPatterns[i].kind = "syslog"
            /\ TsParseWithYear(cap, NowYear(now)) /= <<>>
    THEN TsParseWithYear(cap, NowYear(now))
    ELSE TsFrom(i + 1, line, now)

\* lines 580-605: cap is what the regular expression of entry i captured
TsEntry(i, line, now, pt, cap) ==
    IF ~cap.ok THEN TsFrom(i + 1, line, now)
    ELSE IF pt.kind = "unix"
    THEN Canonical(DateOf(cap.toks[1]), ClockOf(cap.toks[1]))
    ELSE TsParsed(i, line, now, cap, TsParse(pt, cap))

TsFrom(i, line, now) ==
    IF i > Len(timestampPatterns) THEN Canonical(NowDate(now), NowClock(now))
    ELSE TsEntry(i, line, now, timestampPatterns[i],
                 TsRegexMatch(timestampPatterns[i], line))

\* an extractTimestamp that never reads the line
extractTimestampOfClock(line, now) == Canonical(NowDate(now), NowClock(now))

extractTimestamp(line, now) == TsFrom(1, line, now)

\* ------------------------------------------------------------------------
\* ParseLogContent: the line classifier
\* ------------------------------------------------------------------------
ParsedLogLine(ts, level, rid, method, url, status, msg, raw) ==
    [Timestamp |-> ts, Level |-> level, RequestID |-> rid, Method |-> method,
     URL |-> url, Status |-> status, Message |-> msg, Raw |-> raw]

\* what `^\d{4}-\d{2}-\d{2}T\d{2}:\d{2}:\d{2}(\.\d+)?Z?\s*` leaves of a
\* timestamp token: the numeric offset, which the expression does not cover
IsoRest(t) == IF IsoTz(t) THEN << "+00:00" >> ELSE <<>>

\* the else branch: the message is the line without a leading ISO timestamp
FallbackMessage(line) ==
    IF line /= <<>> /\ line[1] \in IsoTokens
    THEN TrimSpace(IsoRest(line[1]) \o Tail(line))
    ELSE line

InfoLevel == << "INFO" >>

\* lines 532-541: no pattern matched
FromFallback(line, ts) ==
    ParsedLogLine(ts, InfoLevel, <<>>, <<>>, <<>>, <<>>, FallbackMessage(line), line)

\* lines 528-531, m the match of simpleInfoPattern
FromSimpleInfo(m, line, ts) ==
    IF m.ok
    THEN ParsedLogLine(ts, InfoLevel, <<>>, <<>>, <<>>, <<>>, m.caps[2], line)
    ELSE FromFallback(line, ts)

\* lines 523-527, m the match of genericInfoPattern
FromGenericInfo(m, line, ts) ==
    IF m.ok
    THEN ParsedLogLine(ts, InfoLevel, m.caps[2], <<>>, <<>>, <<>>, m.caps[3], line)
    ELSE FromSimpleInfo(FindStringSubmatch(simpleInfoPattern, line), line, ts)

\* lines 518-522, m the match of traceIdPattern
FromTraceId(m, line, ts) ==
    IF m.ok
    THEN ParsedLogLine(ts, InfoLevel, m.caps[1], <<>>, <<>>, <<>>,
                       << "traceId:", " ", "\"" >> \o m.caps[1] \o << "\"" >>, line)
    ELSE FromGenericInfo(FindStringSubmatch(genericInfoPattern, line), line, ts)

\* an auth branch that keeps the whole line as the message
FromAuthKeepingLine(m, line, ts) ==
    IF m.ok
    THEN ParsedLogLine(ts, InfoLevel, m.caps[2], <<>>, <<>>, <<>>, line, line)
    ELSE FromTraceId(FindAtStart(traceIdPattern, line), line, ts)

\* lines 513-517, m the match of authPattern
FromAuth(m, line, ts) ==
    IF m.ok
    THEN ParsedLogLine(ts, InfoLevel, m.caps[2], <<>>, <<>>, <<>>,
                       << "Auth", " ", "via", " ", "Bearer", " ", "Token" >>, line)
    ELSE FromTraceId(FindAtStart(traceIdPattern, line), line, ts)

\* a cascade that tries the generic pattern before the response pattern
FromResponseAfterGeneric(m, line, ts) ==
    IF FindStringSubmatch(genericInfoPattern, line).ok
    THEN FromGenericInfo(FindStringSubmatch(genericInfoPattern, line), line, ts)
    ELSE IF m.ok
    THEN ParsedLogLine(ts, InfoLevel, m.caps[2], <<>>, <<>>, m.caps[3],
                       << "Response:", " " >> \o m.caps[3], line)
    ELSE FromAuth(FindStringSubmatch(authPattern, line), line, ts)

\* lines 507-512, m the match of httpResponsePattern
FromResponse(m, line, ts) ==
    IF m.ok
    THEN ParsedLogLine(ts, InfoLevel, m.caps[2], <<>>, <<>>, m.caps[3],
                       << "Response:", " " >> \o m.caps[3], line)
    ELSE FromAuth(FindStringSubmatch(authPattern, line), line, ts)

\* a cascade without the request branch
FromRequestSkipped(m, line, ts) ==
    FromResponse(FindStringSubmatch(httpResponsePattern, line), line, ts)

\* a request branch that records the URL and leaves Method empty
FromRequestWithoutMethod(m, line, ts) ==
    IF m.ok
    THEN ParsedLogLine(ts, InfoLevel, m.caps[2], <<>>, m.caps[4], <<>>,
                       m.caps[3] \o << " " >> \o m.caps[4], line)
    ELSE FromResponse(FindStringSubmatch(httpResponsePattern, line), line, ts)

\* lines 500-506, m the match of httpRequestPattern
FromRequest(m, line, ts) ==
    IF m.ok
    THEN ParsedLogLine(ts, InfoLevel, m.caps[2], m.caps[3], m.caps[4], <<>>,
                       m.caps[3] \o << " " >> \o m.caps[4], line)
    ELSE FromResponse(FindStringSubmatch(httpResponsePattern, line), line, ts)

\* the body of the loop over lines, for one trimmed, non-empty line
ClassifyLine(line, now) ==
    FromRequest(FindStringSubmatch(httpRequestPattern, line), line,
                extractTimestamp(line, now))

\* the loop of ParseLogContent over the lines of the cleaned content
RECURSIVE ParseLines(_, _)
RECURSIVE ParseLine(_, _, _)
ParseLine(line, rest, now) ==
    IF line = <<>> THEN ParseLines(rest, now)
    ELSE << ClassifyLine(line, now) >> \o ParseLines(rest, now)

ParseLines(lines, now) ==
    IF lines = <<>> THEN <<>>
    ELSE ParseLine(TrimSpace(Head(lines)), Tail(lines), now)

\* the text the lines are split from: the content with its ANSI sequences removed
CleanContent(logContent) == StripAnsi(logContent)

ParseLogContent(logContent, now) ==
    IF logContent = <<>> THEN <<>>
    ELSE ParseLines(Split(CleanContent(logContent)), now)

\* lines 245-254 of cmd.parseLogLine: the first record, or the raw line
FirstOrRaw(parsed, line) ==
    IF Len(parsed) > 0 THEN parsed[1]
    ELSE ParsedLogLine(<<>>, InfoLevel, <<>>, <<>>, <<>>, <<>>, line, line)

parseLogLine(line, now) == FirstOrRaw(ParseLogContent(line, now), line)

\* ------------------------------------------------------------------------
\* formatter.FormatLogLine: log.RequestID[:8] panics on a shorter request id
\* ------------------------------------------------------------------------
RequestIDShown == 8

FormatPanics(showRequestIDs, log) ==
    /\ showRequestIDs
    /\ log.RequestID /= <<>>
    /\ StrLen(log.RequestID) < RequestIDShown

\* ------------------------------------------------------------------------
\* client.GetApplicationLogs: the outcome of the HTTP exchange and the
\* (logs, err) pair it is turned into
\* ------------------------------------------------------------------------
StatusOK == 200

RECURSIVE Words(_)
Words(ws) ==
    IF Len(ws) <= 1 THEN ws ELSE << Head(ws), " " >> \o Words(Tail(ws))

ErrNil == [isErr |-> FALSE, msg |-> <<>>]

Err(msg) == [isErr |-> TRUE, msg |-> msg]

Outcome(net, status, body, readOK, json, logs) ==
    [net |-> net, status |-> status, body |-> body, readOK |-> readOK,
     json |-> json, logs |-> logs]

\* http.NewRequest fails ("badurl"), httpClient.Do fails ("down": refused,
\* timed out, no route) or a response arrives ("up")
makeRequest(o) ==
    IF o.net = "badurl"
    THEN Err(Words(<< "failed", "to", "create", "request:", "invalid", "URL" >>))
    ELSE IF o.net = "down"
    THEN Err(Words(<< "failed", "to", "connect", "to", "Coolify", "instance",
                      "at", "FQDN:", "dial", "tcp:", "connection", "refused" >>))
    ELSE ErrNil

\* lines 441-458: a response arrived
ReadLogs(o) ==
    IF o.status /= StatusOK
    THEN [logs |-> <<>>,
          err |-> Err(Words(<< "API", "request", "failed", "with", "status",
                               ToString(o.status) \o ":" >>) \o << " " >> \o o.body)]
    ELSE IF ~o.readOK
    THEN [logs |-> <<>>,
          err |-> Err(Words(<< "failed", "to", "read", "response", "body:",
                               "unexpected", "EOF" >>))]
    ELSE IF ~o.json
    THEN [logs |-> <<>>,
          err |-> Err(Words(<< "failed", "to", "parse", "logs", "response:",
                               "unexpected", "end", "of", "JSON", "input" >>))]
    ELSE [logs |-> o.logs, err |-> ErrNil]

\* lines 435-438, e what makeRequest returned
AfterRequest(o, e) == IF e.isErr THEN [logs |-> <<>>, err |-> e] ELSE ReadLogs(o)

GetApplicationLogs(o) == AfterRequest(o, makeRequest(o))

\* strings.Contains(err.Error(), "failed to connect")
IsConnectionError(err) ==
    Contains(err.msg, Words(<< "failed", "to", "connect" >>))

\* ------------------------------------------------------------------------
\* cmd: displayFormattedLogs, fetchLogs and the body of followLogs's loop
\* ------------------------------------------------------------------------
\* the raw lines the blobs of the model are made of
ResponseLine ==
    << "INFO", " ", "(", "3", ")", ":", " ", "abc123", " ", "Response:", " ",
       "200" >>

\* blank, plain, plain with a trailing space, and a response line with a
\* six-character request id
LineSet == { <<>>, << "a" >>, << "a", " " >>, ResponseLine }

\* a blob: up to MaxLines raw lines joined by newlines
LineSeqs == UNION {[1..n -> LineSet] : n \in 1..MaxLines}

Blobs == {Join(ls) : ls \in LineSeqs}

\* lines 222-225: parseLogLine then FormatLogLine, for each line a blob of the
\* model can show and each setting of --request-ids: TRUE when FormatLogLine
\* panics.  The panic does not depend on the Timestamp field, so the clock at
\* which the line is parsed is immaterial.
ShownLines == {TrimSpace(l) : l \in LineSet} \ {<<>>}

DisplayPanics ==
    [show \in BOOLEAN |->
        [l \in ShownLines |-> FormatPanics(show, parseLogLine(l, 0))]]

\* the loop of displayFormattedLogs from the given lines on, after `printed`:
\* the lines printed, and whether FormatLogLine panicked (nothing is printed
\* from that line on)
RECURSIVE DisplayLines(_, _, _)
RECURSIVE DisplayLine(_, _, _, _)
DisplayLine(line, rest, printed, showRequestIDs) ==
    IF line = <<>> THEN DisplayLines(rest, printed, showRequestIDs)
    ELSE IF DisplayPanics[showRequestIDs][line]
    THEN [printed |-> printed, crashed |-> TRUE]
    ELSE DisplayLines(rest, Append(printed, line), showRequestIDs)

DisplayLines(lines, printed, showRequestIDs) ==
    IF lines = <<>> THEN [printed |-> printed, crashed |-> FALSE]
    ELSE DisplayLine(TrimSpace(Head(lines)), Tail(lines), printed, showRequestIDs)

displayFormattedLogs(rawLogs, showRequestIDs) ==
    IF rawLogs = <<>> THEN [printed |-> <<>>, crashed |-> FALSE]
    ELSE DisplayLines(Split(rawLogs), <<>>, showRequestIDs)

\* lines 156-159: drop one trailing blank line
DropTrailingBlank(lines) ==
    IF Len(lines) > 0 /\ TrimSpace(lines[Len(lines)]) = <<>>
    THEN SubSeq(lines, 1, Len(lines) - 1)
    ELSE lines

\* lines 155-159
PollLines(logs) == DropTrailingBlank(Split(logs))

\* lines 172-177: the loop from index i down; the i + 1 assigned to startIdx
\* (an index counted from 0) is the position of the match counted from 1
RECURSIVE LastMatch(_, _, _)
LastMatch(lines, wanted, i) ==
    IF i = 0 THEN 0
    ELSE IF TrimSpace(lines[i]) = wanted THEN i
    ELSE LastMatch(lines, wanted, i - 1)

\* lines 170-178: the backward scan for lastLine; 0 when startIdx stays 0
AnchorStart(lines, lastLine) ==
    IF lastLine = <<>> THEN 0
    ELSE LastMatch(lines, TrimSpace(lastLine), Len(lines))

\* a tail window that is never applied: every line is shown
TailStartWhole(lines, tail) == 0

\* lines 166-168 and 185-189: the tail window
TailStart(lines, tail) ==
    IF tail > 0 /\ Len(lines) > tail THEN Len(lines) - tail ELSE 0

\* lines 179-191: startIdx once the scan is over
AfterScan(st, lines, tail, startIdx) ==
    IF startIdx /= 0 THEN startIdx
    ELSE IF Len(lines) > st.prevLen THEN st.prevLen
    ELSE TailStart(lines, tail)

\* lines 164-192: startIdx, an index into lines counted from 0
StartIdx(st, lines, tail) ==
    IF ~st.initialized THEN TailStart(lines, tail)
    ELSE AfterScan(st, lines, tail, AnchorStart(lines, st.lastLine))

\* lines[startIdx:]
SliceFrom(lines, startIdx) == SubSeq(lines, startIdx + 1, Len(lines))

TailState(lastLine, prevLen, initialized) ==
    [lastLine |-> lastLine, prevLen |-> prevLen, initialized |-> initialized]

PollResult(st, printed, notices, crashed) ==
    [st |-> st, printed |-> printed, notices |-> notices, crashed |-> crashed]

\* a failed fetch that forgets what was shown so far
FailedPollForgetting(st, err, verbose) ==
    PollResult(TailState(<<>>, 0, FALSE), <<>>, <<>>, FALSE)

\* lines 143-153: the notices of a failed fetch; TailState is not touched
FailedPoll(st, err, verbose) ==
    PollResult(st, <<>>,
               IF IsConnectionError(err)
               THEN << "ConnectionLost" >>
                    \o (IF verbose THEN << "Details" >> ELSE <<>>)
               ELSE IF verbose THEN << "ErrorFetchingLogs" >> ELSE <<>>,
               FALSE)

\* lines 194-197
ShowSegment(lines, startIdx, showRequestIDs) ==
    IF startIdx < Len(lines)
    THEN displayFormattedLogs(Join(SliceFrom(lines, startIdx)), showRequestIDs)
    ELSE [printed |-> <<>>, crashed |-> FALSE]

\* lines 199-201, which a panic of the display never reaches
RecordPoll(st, lines, shown) ==
    IF shown.crashed THEN PollResult(st, shown.printed, <<>>, TRUE)
    ELSE PollResult(TailState(lines[Len(lines)], Len(lines), TRUE),
                    shown.printed, <<>>, FALSE)

\* a loop body that starts over when a fetch brings no line
PollOfLinesResetting(st, lines, tail, showRequestIDs) ==
    IF Len(lines) = 0
    THEN PollResult(TailState(<<>>, 0, FALSE), <<>>, <<>>, FALSE)
    ELSE RecordPoll(st, lines,
                    ShowSegment(lines, StartIdx(st, lines, tail), showRequestIDs))

\* lines 160-201
PollOfLines(st, lines, tail, showRequestIDs) ==
    IF Len(lines) = 0 THEN PollResult(st, <<>>, <<>>, FALSE)
    ELSE RecordPoll(st, lines,
                    ShowSegment(lines, StartIdx(st, lines, tail), showRequestIDs))

\* lines 155-201: a successful fetch
SuccessfulPoll(st, logs, tail, showRequestIDs) ==
    PollOfLines(st, PollLines(logs), tail, showRequestIDs)

\* one iteration of the loop of followLogs, given what the fetch returned
FollowPoll(st, r, tail, verbose, showRequestIDs) ==
    IF r.err.isErr THEN FailedPoll(st, r.err, verbose)
    ELSE SuccessfulPoll(st, r.logs, tail, showRequestIDs)

\* lines 111-114 of fetchLogs
FetchShown(shown) ==
    [ret |-> ErrNil, printed |-> shown.printed, notices |-> <<>>,
     crashed |-> shown.crashed]

\* a fetchLogs that swallows the failure of the fetch, as followLogs does
fetchLogsSwallowing(r, showRequestIDs) ==
    IF r.err.isErr \/ r.logs = <<>>
    THEN [ret |-> ErrNil, printed |-> <<>>, notices |-> << "NoLogsFound" >>,
          crashed |-> FALSE]
    ELSE FetchShown(displayFormattedLogs(r.logs, showRequestIDs))

\* fetchLogs: the error returned, the lines printed
fetchLogs(r, showRequestIDs) ==
    IF r.err.isErr
    THEN [ret |-> Err(IF IsConnectionError(r.err)
                      THEN Words(<< "Connection", "failed:" >>) \o << " " >> \o r.err.msg
                      ELSE Words(<< "failed", "to", "fetch", "logs:" >>)
                               \o << " " >> \o r.err.msg),
          printed |-> <<>>, notices |-> <<>>, crashed |-> FALSE]
    ELSE IF r.logs = <<>>
    THEN [ret |-> ErrNil, printed |-> <<>>, notices |-> << "NoLogsFound" >>,
          crashed |-> FALSE]
    ELSE FetchShown(displayFormattedLogs(r.logs, showRequestIDs))

\* ------------------------------------------------------------------------
\* package config: the instances, the config file and the registry methods.
\* A Config is its Instances; LastUpdateCheckTime is left out.  An error
\* message is a sequence of words.
\* ------------------------------------------------------------------------
Instance(fqdn, name, tok, def) ==
    [FQDN |-> fqdn, Name |-> name, Token |-> tok, Default |-> def]

\* a *Config: nil, or a Config with its Instances
NilConfig == [isNil |-> TRUE, Instances |-> <<>>]

Config(instances) == [isNil |-> FALSE, Instances |-> instances]

Least(S) == CHOOSE x \in S : \A y \in S : x <= y

Defaults(instances) == {i \in 1..Len(instances) : instances[i].Default}

NamedInstances(instances, name) ==
    {i \in 1..Len(instances) : instances[i].Name = name}

\* the index of the instance returned, 0 for nil
GetDefaultInstance(instances) ==
    IF Defaults(instances) /= {} THEN Least(Defaults(instances))
    ELSE IF Len(instances) > 0 THEN 1
    ELSE 0

\* the index of the instance returned, 0 for nil
GetInstanceByName(instances, name) ==
    IF NamedInstances(instances, name) /= {}
    THEN Least(NamedInstances(instances, name))
    ELSE 0

\* encoding/json on Instance: `default` has omitempty, so false is left out
MarshalInstance(i) ==
    IF i.Default
    THEN [fqdn |-> i.FQDN, name |-> i.Name, token |-> i.Token, default |-> TRUE]
    ELSE [fqdn |-> i.FQDN, name |-> i.Name, token |-> i.Token]

\* a key that is missing leaves the zero value
UnmarshalInstance(o) ==
    Instance(o.fqdn, o.name, o.token,
             IF "default" \in DOMAIN o THEN o.default ELSE FALSE)

Marshal(instances) ==
    [k \in 1..Len(instances) |-> MarshalInstance(instances[k])]

Unmarshal(data) == [k \in 1..Len(data) |-> UnmarshalInstance(data[k])]

\* the config file: missing, or the JSON objects of its "instances" array
NoFile == [exists |-> FALSE, data |-> <<>>]

FileOf(data) == [exists |-> TRUE, data |-> data]

CloudFQDN == "https://app.coolify.io"

\* what Load returns (cfg, err) and what it leaves behind (global, file)
Loaded(cfg, err, global, f) ==
    [cfg |-> cfg, err |-> err, global |-> global, file |-> f]

\* a default file of three instances whose default is a placeholder
createDefaultConfigOfThree(f, writeOK) ==
    IF ~writeOK
    THEN Loaded(NilConfig,
                Err(Words(<< "failed", "to", "create", "default", "config",
                             "file:", "permission", "denied" >>)),
                NilConfig, f)
    ELSE Loaded(NilConfig,
                Err(Words(<< "please", "configure", "your", "tokens", "in",
                             "config.json" >>)),
                NilConfig,
                FileOf(Marshal(<< Instance(CloudFQDN, "cloud", "", FALSE),
                                  Instance("http://localhost:8000", "localhost",
                                           "", FALSE),
                                  Instance("https://coolify.yourdomain.com",
                                           "yourdomain", "your-token-here",
                                           TRUE) >>)))

\* writeOK: os.MkdirAll and os.WriteFile succeed
createDefaultConfig(f, writeOK) ==
    IF ~writeOK
    THEN Loaded(NilConfig,
                Err(Words(<< "failed", "to", "create", "default", "config",
                             "file:", "permission", "denied" >>)),
                NilConfig, f)
    ELSE Loaded(NilConfig,
                Err(Words(<< "please", "configure", "your", "tokens", "in",
                             "config.json" >>)),
                NilConfig,
                FileOf(Marshal(<< Instance(CloudFQDN, "cloud", "", TRUE) >>)))

\* lines 263-282, config what json.Unmarshal filled in
ValidateLoaded(validateTokens, instances, f) ==
    IF Len(instances) = 0
    THEN Loaded(NilConfig,
                Err(Words(<< "no", "Coolify", "instances", "configured." >>)),
                NilConfig, f)
    ELSE IF validateTokens /\ instances[GetDefaultInstance(instances)].Token = ""
    THEN Loaded(NilConfig,
                Err(Words(<< "token", "is", "required", "for", "default",
                             "instance" >>)),
                NilConfig, f)
    ELSE Loaded(Config(instances), ErrNil, Config(instances), f)

\* g the globalConfig of the process, f the file; readOK: os.ReadFile
\* succeeds
LoadWithValidation(validateTokens, g, f, readOK, writeOK) ==
    IF ~g.isNil THEN Loaded(g, ErrNil, g, f)
    ELSE IF ~f.exists THEN createDefaultConfig(f, writeOK)
    ELSE IF ~readOK
    THEN Loaded(NilConfig,
                Err(Words(<< "failed", "to", "read", "config", "file:",
                             "permission", "denied" >>)),
                NilConfig, f)
    ELSE ValidateLoaded(validateTokens, Unmarshal(f.data), f)

Load(g, f, readOK, writeOK) == LoadWithValidation(TRUE, g, f, readOK, writeOK)

LoadWithoutValidation(g, f, readOK, writeOK) ==
    LoadWithValidation(FALSE, g, f, readOK, writeOK)

Saved(f, err) == [file |-> f, err |-> err]

\* (c *Config) Save
Save(instances, f, writeOK) ==
    IF writeOK THEN Saved(FileOf(Marshal(instances)), ErrNil)
    ELSE Saved(f, Err(Words(<< "failed", "to", "write", "config", "file:",
                               "permission", "denied" >>)))

\* what a registry method leaves in c.Instances, and the error it returns
Called(instances, err) == [Instances |-> instances, err |-> err]

NotFound(name) ==
    Err(Words(<< "instance", "'" \o name \o "'", "not", "found" >>))

Undefaulted(instances) ==
    [k \in 1..Len(instances) |-> [instances[k] EXCEPT !.Default = FALSE]]

\* the other defaults are unset before the name is looked up
AddInstanceUnsettingFirst(instances, name, fqdn, tok, isDefault) ==
    IF GetInstanceByName(instances, name) /= 0
    THEN Called(IF isDefault THEN Undefaulted(instances) ELSE instances,
                Err(Words(<< "instance", "'" \o name \o "'", "already",
                             "exists" >>)))
    ELSE Called(Append(IF isDefault THEN Undefaulted(instances) ELSE instances,
                       Instance(fqdn, name, tok, isDefault)),
                ErrNil)

AddInstance(instances, name, fqdn, tok, isDefault) ==
    IF GetInstanceByName(instances, name) /= 0
    THEN Called(instances,
                Err(Words(<< "instance", "'" \o name \o "'", "already",
                             "exists" >>)))
    ELSE Called(Append(IF isDefault THEN Undefaulted(instances) ELSE instances,
                       Instance(fqdn, name, tok, isDefault)),
                ErrNil)

SetInstanceToken(instances, name, tok) ==
    IF GetInstanceByName(instances, name) = 0
    THEN Called(instances, NotFound(name))
    ELSE Called([instances EXCEPT ![GetInstanceByName(instances, name)].Token = tok],
                ErrNil)

\* the target is marked and the other marks are left as they were
SetDefaultInstanceKeepingOthers(instances, name) ==
    IF GetInstanceByName(instances, name) = 0
    THEN Called(instances, NotFound(name))
    ELSE Called([instances
                    EXCEPT ![GetInstanceByName(instances, name)].Default = TRUE],
                ErrNil)

SetDefaultInstance(instances, name) ==
    IF GetInstanceByName(instances, name) = 0
    THEN Called(instances, NotFound(name))
    ELSE Called([Undefaulted(instances)
                    EXCEPT ![GetInstanceByName(instances, name)].Default = TRUE],
                ErrNil)

\* append(c.Instances[:i], c.Instances[i+1:]...), i counted from 1
Without(instances, i) ==
    SubSeq(instances, 1, i - 1) \o SubSeq(instances, i + 1, Len(instances))

\* lines 413-416, rest the instances that remain
Promote(removed, rest) ==
    IF removed.Default /\ Len(rest) > 0
    THEN [rest EXCEPT ![1].Default = TRUE]
    ELSE rest

RemoveInstance(instances, name) ==
    IF GetInstanceByName(instances, name) = 0
    THEN Called(instances, NotFound(name))
    ELSE Called(Promote(instances[GetInstanceByName(instances, name)],
                        Without(instances, GetInstanceByName(instances, name))),
                ErrNil)

\* client.TestConnection on the outcome o of the HTTP exchange
TestConnection(o) ==
    IF makeRequest(o).isErr
    THEN Err(Words(<< "connection", "test", "failed:" >>) \o << " " >>
                \o makeRequest(o).msg)
    ELSE IF o.status = 401
    THEN Err(Words(<< "authentication", "failed" >>) \o << ":", " " >>
                \o Words(<< "invalid", "API", "key" >>))
    ELSE IF o.status = 403
    THEN Err(Words(<< "API", "returned", "error", "403:" >>) \o << " " >> \o o.body)
    ELSE ErrNil

\* ------------------------------------------------------------------------
\* The state
\* ------------------------------------------------------------------------
VARIABLES
    pc,           \* "start", "waiting" (on ticker.C), "fetching", "returned",
                  \* "crashed" (panic), "interrupted" (external cancellation)
    follow, tail, verbose, requestIDs,      \* the flags of the logs command
    lastLine, prevLen, initialized,         \* the locals of followLogs
    out,          \* the log lines printed by the current poll or command
    notices,      \* the notices printed by the current poll or command
    retErr,       \* the error fetchLogs returned
    ticks,        \* ticks waiting in the channel of the ticker (it holds one)
    inflight,     \* calls of GetApplicationLogs that have not returned
    pre,          \* lastLine, prevLen, initialized when the current poll began
    outcome,      \* the HTTP exchange of the current poll
    remote,       \* the lines of the remote log (append-only source)
    seen,         \* how many lines of remote the latest poll fetched
    seenPrev,     \* how many the poll before it fetched
    input,        \* the text handed to the classifier
    now,          \* the wall clock, in seconds
    at1,          \* the wall clock at the first call of the classifier
    stamp,        \* what extractTimestamp returned for the input, as given
    recs1, recs2, \* what the first and the second call of the classifier returned
    phase,        \* "idle", "once", "twice": calls of the classifier so far
    token,        \* the API token of the configured instance
    command,      \* the display command that ran: "config show", "instances list"
    display,      \* the text that command printed after "Token: "
    ident,        \* the argument of the logs command
    apps,         \* the applications of the instance
    listed,       \* whether GetApplications succeeds
    resolved,     \* what resolveApplicationIdentifier returned
    file,         \* ~/.coolify-cli/config.json
    globalConfig, \* the package variable of config: the Config in memory
    history       \* the latest command or call and what it returned

vars ==
    << pc, follow, tail, verbose, requestIDs, lastLine, prevLen, initialized,
       out, notices, retErr, ticks, inflight, pre, outcome, remote, seen,
       seenPrev, input, now, at1, stamp, recs1, recs2, phase, token, command,
       display, ident, apps, listed, resolved, file, globalConfig, history >>

flagVars == << follow, tail, verbose, requestIDs >>

remoteVars == << remote, seen, seenPrev >>

loopVars == << ticks, inflight >>

showVars == << token, command, display >>

resolveVars == << ident, apps, listed, resolved >>

parseVars == << input, now, at1, stamp, recs1, recs2, phase >>

configVars == << file, globalConfig, history >>

\* ------------------------------------------------------------------------
\* The inputs
\* ------------------------------------------------------------------------
NoOutcome == Outcome("none", 0, <<>>, FALSE, FALSE, <<>>)

ErrorBodies ==
    { Words(<< "Internal", "Server", "Error" >>),
      Words(<< "upstream:", "failed", "to", "connect" >>) }

Failures ==
    { Outcome("badurl", 0, <<>>, FALSE, FALSE, <<>>),
      Outcome("down", 0, <<>>, FALSE, FALSE, <<>>),
      Outcome("up", StatusOK, <<>>, FALSE, FALSE, <<>>),
      Outcome("up", StatusOK, <<>>, TRUE, FALSE, <<>>) }
    \cup {Outcome("up", st, b, TRUE, TRUE, <<>>) :
            st \in {404, 500}, b \in ErrorBodies}

Successes == {Outcome("up", StatusOK, <<>>, TRUE, TRUE, b) : b \in Blobs}

Outcomes == Failures \cup Successes

\* ------------------------------------------------------------------------
\* Init and the actions of the logs command
\* ------------------------------------------------------------------------
InitLocals ==
    /\ pc = "start"
    /\ lastLine = <<>>
    /\ prevLen = 0
    /\ initialized = FALSE
    /\ out = <<>>
    /\ notices = <<>>
    /\ retErr = ErrNil
    /\ ticks = 0
    /\ inflight = 0
    /\ pre = TailState(<<>>, 0, FALSE)
    /\ outcome = NoOutcome
    /\ remote = <<>>
    /\ seen = 0
    /\ seenPrev = 0

\* no display command has run
InitShowVars ==
    /\ token = <<>>
    /\ command = "none"
    /\ display = <<>>

NoResolution == [uuid |-> "", err |-> ErrNil]

\* the argument of the logs command is already an application UUID
InitResolveVars ==
    /\ ident = ""
    /\ apps = <<>>
    /\ listed = TRUE
    /\ resolved = NoResolution

\* no config file, a process that has loaded nothing, no command yet
InitConfigVars ==
    /\ file = NoFile
    /\ globalConfig = NilConfig
    /\ history = <<>>

InitParseVars ==
    /\ input = <<>>
    /\ now = 0
    /\ at1 = 0
    /\ stamp = <<>>
    /\ recs1 = <<>>
    /\ recs2 = <<>>
    /\ phase = "idle"

Init ==
    /\ InitLocals
    /\ InitParseVars
    /\ InitShowVars
    /\ InitResolveVars
    /\ InitConfigVars
    /\ follow \in BOOLEAN
    /\ tail \in 0..MaxTail
    /\ verbose \in BOOLEAN
    /\ requestIDs \in BOOLEAN

\* runLogsCommand with --follow: followLogs creates the ticker and its locals
StartFollow ==
    /\ pc = "start"
    /\ follow
    /\ pc' = "waiting"
    /\ UNCHANGED << flagVars, showVars, resolveVars, configVars,
                    lastLine, prevLen, initialized, out, notices,
                    retErr, loopVars, pre, outcome, remoteVars, parseVars >>

\* a second has passed: the ticker sends on its channel, which holds one tick;
\* a tick that finds the channel full is dropped, which changes nothing
TickerFires ==
    /\ pc \in {"waiting", "fetching"}
    /\ ticks = 0
    /\ ticks' = 1
    /\ UNCHANGED << pc, flagVars, showVars, resolveVars, configVars,
                    lastLine, prevLen, initialized, out, notices,
                    retErr, inflight, pre, outcome, remoteVars, parseVars >>

\* a loop that starts a fetch on every tick, whether or not the previous
\* fetch has returned
TickOverlapping ==
    /\ pc \in {"waiting", "fetching"}
    /\ ticks = 1
    /\ inflight < 2
    /\ ticks' = 0
    /\ inflight' = inflight + 1
    /\ pc' = "fetching"
    /\ pre' = TailState(lastLine, prevLen, initialized)
    /\ out' = <<>>
    /\ notices' = <<>>
    /\ outcome' = NoOutcome
    /\ UNCHANGED << flagVars, showVars, resolveVars, configVars,
                    lastLine, prevLen, initialized, retErr,
                    remoteVars, parseVars >>

\* case <-ticker.C: the loop body starts and calls GetApplicationLogs
Tick ==
    /\ pc = "waiting"
    /\ ticks = 1
    /\ ticks' = 0
    /\ inflight' = inflight + 1
    /\ pc' = "fetching"
    /\ pre' = TailState(lastLine, prevLen, initialized)
    /\ out' = <<>>
    /\ notices' = <<>>
    /\ outcome' = NoOutcome
    /\ UNCHANGED << flagVars, showVars, resolveVars, configVars,
                    lastLine, prevLen, initialized, retErr,
                    remoteVars, parseVars >>

\* GetApplicationLogs returns: the rest of the loop body
Handle(o) ==
    \E r \in {FollowPoll(TailState(lastLine, prevLen, initialized),
                         GetApplicationLogs(o), tail, verbose, requestIDs)} :
        /\ outcome' = o
        /\ lastLine' = r.st.lastLine
        /\ prevLen' = r.st.prevLen
        /\ initialized' = r.st.initialized
        /\ out' = r.printed
        /\ notices' = r.notices
        /\ pc' = IF r.crashed THEN "crashed" ELSE "waiting"
        /\ inflight' = inflight - 1
        /\ UNCHANGED << flagVars, showVars, resolveVars, configVars,
                        retErr, ticks, pre, parseVars >>

FetchReturn ==
    /\ pc = "fetching"
    /\ \E o \in Outcomes : Handle(o)
    /\ UNCHANGED remoteVars

\* runLogsCommand without --follow: fetchLogs
OneShot ==
    /\ pc = "start"
    /\ ~follow
    /\ \E o \in Outcomes :
           \E r \in {fetchLogs(GetApplicationLogs(o), requestIDs)} :
               /\ outcome' = o
               /\ retErr' = r.ret
               /\ out' = r.printed
               /\ notices' = r.notices
               /\ pc' = IF r.crashed THEN "crashed" ELSE "returned"
    /\ UNCHANGED << flagVars, showVars, resolveVars, configVars,
                    lastLine, prevLen, initialized, loopVars, pre,
                    remoteVars, parseVars >>

\* Ctrl+C while followLogs runs
Interrupt ==
    /\ pc \in {"waiting", "fetching"}
    /\ pc' = "interrupted"
    /\ UNCHANGED << flagVars, showVars, resolveVars, configVars,
                    lastLine, prevLen, initialized, out, notices,
                    retErr, loopVars, pre, outcome, remoteVars, parseVars >>

Next ==
    StartFollow \/ TickerFires \/ Tick \/ FetchReturn \/ OneShot \/ Interrupt

Spec == Init /\ [][Next]_vars

\* ------------------------------------------------------------------------
\* Follow mode against a remote log that only grows
\* ------------------------------------------------------------------------
\* the blob of the remote log: every line newline-terminated
RemoteBlob == IF remote = <<>> THEN <<>> ELSE Join(Append(remote, <<>>))

InitAppend ==
    /\ InitLocals
    /\ InitParseVars
    /\ InitShowVars
    /\ InitResolveVars
    /\ InitConfigVars
    /\ follow = TRUE
    /\ tail \in 0..MaxTail
    /\ verbose = FALSE
    /\ requestIDs \in BOOLEAN

\* the application writes one more line to its log
AppendLine ==
    /\ Len(remote) < MaxLines
    /\ \E l \in LineSet : remote' = Append(remote, l)
    /\ UNCHANGED << pc, flagVars, showVars, resolveVars, configVars,
                    lastLine, prevLen, initialized, out, notices,
                    retErr, loopVars, pre, outcome, seen, seenPrev, parseVars >>

\* the fetch returns the remote log as it is now
PollRemote ==
    /\ pc = "fetching"
    /\ Handle(Outcome("up", StatusOK, <<>>, TRUE, TRUE, RemoteBlob))
    /\ seenPrev' = seen
    /\ seen' = Len(remote)
    /\ UNCHANGED remote

NextAppend == StartFollow \/ TickerFires \/ Tick \/ PollRemote \/ AppendLine

SpecAppend == InitAppend /\ [][NextAppend]_vars

\* ------------------------------------------------------------------------
\* The classifier called twice on one line
\* ------------------------------------------------------------------------
RequestLine ==
    << "INFO", " ", "(", "3", ")", ":", " ", "abc123", " ", "GET", " ",
       "http://x/y", " ", "-", " ", "0", " ", "query", " ", "params,", " ", "0",
       " ", "body", " ", "keys" >>

AuthLine ==
    << "INFO", " ", "(", "4", ")", ":", " ", "def456", " ", "Auth", " ", "via",
       " ", "Bearer", " ", "Token" >>

TraceLine == << "traceId:", " ", "\"", "deadbeef-0001", "\"" >>

Green == << ESC, "[", "0", ";", "3", "m" >>

Reset == << ESC, "[", "0", "m" >>

SampleLines ==
    { RequestLine, ResponseLine, AuthLine, TraceLine,
      << "INFO", " ", "(", "18", ")", ":", " ", "deadbeef-0001", " ", "hello" >>,
      << "INFO", " ", "(", "18", ")", ":", " ", "hello", " ", "a" >>,
      << "2024-01-15T14:30:45Z", " " >> \o ResponseLine,
      << "2025-08-19T06:49:35.131504808Z", " ", "hello" >>,
      << "2024-01-15T14:30:45.123Z", " ", "hello" >>,
      << "2024-01-15T14:30:45", " ", "hello" >>,
      << "2024-01-15T14:30:45+00:00", " ", "hello" >>,
      << "2024-13-45T99:99:99Z", " ", "hello" >>,
      << "2024-01-15T14:30:45Z" >>,
      << "Jan", " ", "18", " ", "14:30:45", " ", "hello" >>,
      << "[", "1705329045", "]", " ", "hello" >>,
      Green \o ResponseLine \o Reset,
      << " " >> \o Green \o << " ", "hello", " " >>,
      ResponseLine \o << " " >> \o RequestLine,
      TraceLine \o << " ", "INFO", " ", "(", "18", ")", ":", " ",
                    "deadbeef-0001", " ", "hello" >> }

\* lines of the three shapes with a request id, as Coolify writes them, bare or
\* after the timestamp the log API puts in front of a line
ShapePrefixes == {<<>>, << "2024-01-15T14:30:45Z", " " >>}

ShapeNumbers == {"3", "18"}

ShapeIds == HexWordTokens \cup {"200", "-"}

ShapeStatuses == {"200", "404"}

RequestShape(n, id, verb, url) ==
    << "INFO", " ", "(", n, ")", ":", " ", id, " ", verb, " ", url, " ", "-",
       " ", "0", " ", "query", " ", "params,", " ", "3", " ", "body", " ",
       "keys" >>

ResponseShape(n, id, st) ==
    << "INFO", " ", "(", n, ")", ":", " ", id, " ", "Response:", " ", st >>

AuthShape(n, id) ==
    << "INFO", " ", "(", n, ")", ":", " ", id, " ", "Auth", " ", "via", " ",
       "Bearer", " ", "Token" >>

ShapeLines ==
    UNION { { p \o RequestShape(n, id, verb, url) :
                  verb \in VerbTokens, url \in UrlTokens }
            \cup { p \o ResponseShape(n, id, st) : st \in ShapeStatuses }
            \cup { p \o AuthShape(n, id) } :
            p \in ShapePrefixes, n \in ShapeNumbers, id \in ShapeIds }

\* lines that start with a timestamp of each format, well-formed or not
TimestampLines ==
    { << t >> : t \in IsoTokens }
    \cup { << "2024-01-15", " ", "14:30:45", " ", "hello" >>,
           << "2024-13-45", " ", "14:30:45" >>,
           << "Jan", " ", "3", " ", "14:30:45", " ", "hello" >>,
           << "Jan", " ", "0", " ", "14:30:45" >>,
           << "Xyz", " ", "4", " ", "14:30:45" >>,
           << "[", "2024-01-15", " ", "14:30:45", "]", " ", "hello" >>,
           << "[", "2024-13-45", " ", "14:30:45", "]" >>,
           << "2024/01/15", " ", "14:30:45" >> }

ParseAlphabet == {"a", " ", ESC, "[", "0", "m"}

ParseInputs ==
    SampleLines \cup ShapeLines \cup TimestampLines
        \cup UNION {[1..n -> ParseAlphabet] : n \in 0..MaxLineLen}

InitParse ==
    /\ InitLocals
    /\ InitParseVars
    /\ InitShowVars
    /\ InitResolveVars
    /\ InitConfigVars
    /\ follow = FALSE
    /\ tail = 0
    /\ verbose = FALSE
    /\ requestIDs = FALSE

\* a first call of ParseLogContent and of extractTimestamp, on any line
Classify ==
    /\ phase = "idle"
    /\ \E l \in ParseInputs :
           /\ input' = l
           /\ recs1' = ParseLogContent(l, now)
           /\ stamp' = extractTimestamp(l, now)
    /\ at1' = now
    /\ phase' = "once"
    /\ UNCHANGED << pc, flagVars, showVars, resolveVars, configVars,
                    lastLine, prevLen, initialized, out, notices,
                    retErr, loopVars, pre, outcome, remoteVars, now, recs2 >>

\* a second call on the same line
ClassifyAgain ==
    /\ phase = "once"
    /\ recs2' = ParseLogContent(input, now)
    /\ phase' = "twice"
    /\ UNCHANGED << pc, flagVars, showVars, resolveVars, configVars,
                    lastLine, prevLen, initialized, out, notices,
                    retErr, loopVars, pre, outcome, remoteVars, input, now, at1,
                    stamp, recs1 >>

\* a second of wall-clock time passes
ClockTick ==
    /\ now < MaxClock
    /\ now' = now + 1
    /\ UNCHANGED << pc, flagVars, showVars, resolveVars, configVars,
                    lastLine, prevLen, initialized, out, notices,
                    retErr, loopVars, pre, outcome, remoteVars, input, at1, stamp,
                    recs1, recs2, phase >>

NextParse == Classify \/ ClassifyAgain \/ ClockTick

SpecParse == InitParse /\ [][NextParse]_vars

\* ------------------------------------------------------------------------
\* config show and instances list: the token of an instance on display
\* ------------------------------------------------------------------------
MaskedOver == 8

MaskKeep == 4

\* the same statements in runConfigShowCommand and runInstancesListCommand;
\* a token is a sequence of characters
MaskToken(t) ==
    IF Len(t) > MaskedOver
    THEN SubSeq(t, 1, MaskKeep) \o << ".", ".", "." >>
             \o SubSeq(t, Len(t) - MaskKeep + 1, Len(t))
    ELSE IF t = <<>> THEN << "(not configured)" >>
    ELSE t

TokenAlphabet == {"x", "y"}

Tokens == UNION {[1..n -> TokenAlphabet] : n \in 0..MaxTokenLen}

InitShow ==
    /\ InitLocals
    /\ InitParseVars
    /\ InitResolveVars
    /\ InitConfigVars
    /\ follow = FALSE
    /\ tail = 0
    /\ verbose = FALSE
    /\ requestIDs = FALSE
    /\ token \in Tokens
    /\ command = "none"
    /\ display = <<>>

\* what either command prints for the instance
Show(cmd) ==
    /\ command' = cmd
    /\ display' = MaskToken(token)
    /\ UNCHANGED << pc, flagVars, resolveVars, configVars, token, lastLine, prevLen,
                    initialized, out, notices, retErr, loopVars, pre, outcome,
                    remoteVars, parseVars >>

\* runConfigShowCommand
ConfigShow ==
    /\ command = "none"
    /\ Show("config show")

\* runInstancesListCommand
InstancesList ==
    /\ command = "none"
    /\ Show("instances list")

NextShow == ConfigShow \/ InstancesList

SpecShow == InitShow /\ [][NextShow]_vars

\* ------------------------------------------------------------------------
\* runLogsCommand: the argument is resolved to an application UUID, then the
\* logs are fetched
\* ------------------------------------------------------------------------
UUIDMinLen == 20

Resolution(uuid, err) == [uuid |-> uuid, err |-> err]

\* lines 270-275: the UUIDs of the applications named identifier
RECURSIVE MatchingApps(_, _)
MatchingApps(identifier, as) ==
    IF as = <<>> THEN <<>>
    ELSE (IF Head(as).Name = identifier THEN << Head(as).UUID >> ELSE <<>>)
             \o MatchingApps(identifier, Tail(as))

\* lines 277-286
ResolveMatches(matchingApps) ==
    IF Len(matchingApps) = 0
    THEN Resolution("", Err(Words(<< "no", "application", "found" >>)))
    ELSE IF Len(matchingApps) > 1
    THEN Resolution("", Err(Words(<< "multiple", "applications", "found" >>)))
    ELSE Resolution(matchingApps[1], ErrNil)

\* identifier is a string; ok tells whether GetApplications succeeds
resolveApplicationIdentifier(identifier, ok, as) ==
    IF Len(identifier) >= UUIDMinLen THEN Resolution(identifier, ErrNil)
    ELSE IF ~ok
    THEN Resolution("", Err(Words(<< "failed", "to", "fetch", "applications" >>)))
    ELSE ResolveMatches(MatchingApps(identifier, as))

AppNames == {"web", "api", "my-production-api-server"}

AppUUIDs == {"nk4kcskcsswg0wskk88skcsg", "a1b2c3d4e5f6g7h8i9j0k1l2"}

Identifiers == AppNames \cup AppUUIDs \cup {"ghost"}

\* the applications of an instance: their UUIDs are distinct
AppLists ==
    { as \in UNION {[1..n -> [Name : AppNames, UUID : AppUUIDs]] : n \in 0..MaxApps} :
          \A i, j \in 1..Len(as) : i /= j => as[i].UUID /= as[j].UUID }

\* the logs command without --follow, before its argument is resolved
InitResolve ==
    /\ pc = "args"
    /\ lastLine = <<>>
    /\ prevLen = 0
    /\ initialized = FALSE
    /\ out = <<>>
    /\ notices = <<>>
    /\ retErr = ErrNil
    /\ ticks = 0
    /\ inflight = 0
    /\ pre = TailState(<<>>, 0, FALSE)
    /\ outcome = NoOutcome
    /\ remote = <<>>
    /\ seen = 0
    /\ seenPrev = 0
    /\ InitParseVars
    /\ InitShowVars
    /\ InitConfigVars
    /\ follow = FALSE
    /\ tail = 0
    /\ verbose = FALSE
    /\ requestIDs = FALSE
    /\ ident \in Identifiers
    /\ apps \in AppLists
    /\ listed \in BOOLEAN
    /\ resolved = NoResolution

\* runLogsCommand, lines 66-70: an error ends the command before any fetch
ResolveIdentifier ==
    /\ pc = "args"
    /\ \E r \in {resolveApplicationIdentifier(ident, listed, apps)} :
           /\ resolved' = r
           /\ pc' = IF r.err.isErr THEN "returned" ELSE "start"
           /\ retErr' = r.err
    /\ UNCHANGED << flagVars, showVars, configVars, ident, apps, listed, lastLine, prevLen,
                    initialized, out, notices, loopVars, pre, outcome,
                    remoteVars, parseVars >>

NextResolve == ResolveIdentifier \/ OneShot

SpecResolve == InitResolve /\ [][NextResolve]_vars

\* ------------------------------------------------------------------------
\* The config and instances commands.  Each command is a process of its
\* own: it starts with globalConfig nil, loads the file, and what it leaves
\* in memory is in globalConfig when it ends.
\* ------------------------------------------------------------------------
InstanceNames == {"cloud", "staging"}

InstanceTokens == {"", "tok-1"}

InstanceFQDNs == {"https://coolify.example.com"}

\* the HTTP exchange of the connection test of `instances add`
TestOutcomes ==
    { Outcome("down", 0, <<>>, FALSE, FALSE, <<>>),
      Outcome("up", StatusOK, <<>>, FALSE, FALSE, <<>>),
      Outcome("up", 401, <<>>, FALSE, FALSE, <<>>),
      Outcome("up", 403, << "Forbidden" >>, FALSE, FALSE, <<>>),
      Outcome("up", 500, << "Internal" >>, FALSE, FALSE, <<>>) }

\* fmt.Errorf(prefix + ": %w", err)
Wrap(prefix, err) == Err(Words(prefix) \o << ":", " " >> \o err.msg)

\* how a command ends: the file, the Config in memory, the error returned
Ended(f, global, err) == [file |-> f, global |-> global, err |-> err]

\* a command or call that ran: its arguments, the connection test it was
\* given, the error it returned, for a client the index of its instance,
\* and whether the config file was there when it began
Ran(cmd, name, tok, isDefault, test, err, bound) ==
    [cmd |-> cmd, name |-> name, token |-> tok, isDefault |-> isDefault,
     test |-> test, err |-> err, bound |-> bound, had |-> FALSE]

\* lines 117-129 of runConfigInitCommand, l what config.Load returned
InitLoaded(l) ==
    IF l.err.isErr
          /\ ~Contains(l.err.msg, Words(<< "please", "configure", "your",
                                           "tokens" >>))
    THEN Ended(l.file, l.global, l.err)
    ELSE Ended(l.file, l.global, ErrNil)

runConfigInitCommand(f, readOK, writeOK) ==
    IF f.exists THEN Ended(f, NilConfig, ErrNil)
    ELSE InitLoaded(Load(NilConfig, f, readOK, writeOK))

\* cfg.Save() after a registry method returned c; s what Save returned
SaveCalled(c, s) ==
    IF s.err.isErr
    THEN Ended(s.file, Config(c.Instances),
               Wrap(<< "failed", "to", "save", "config" >>, s.err))
    ELSE Ended(s.file, Config(c.Instances), ErrNil)

\* the end of each instances command: the method returned c
AfterCall(c, f, writeOK, what) ==
    IF c.err.isErr
    THEN Ended(f, Config(c.Instances), Wrap(what, c.err))
    ELSE SaveCalled(c, Save(c.Instances, f, writeOK))

LoadFailed(l) ==
    Ended(l.file, l.global, Wrap(<< "failed", "to", "load", "config" >>, l.err))

SetTokenLoaded(l, name, tok, writeOK) ==
    IF l.err.isErr THEN LoadFailed(l)
    ELSE AfterCall(SetInstanceToken(l.cfg.Instances, name, tok), l.file,
                   writeOK, << "failed", "to", "set", "token" >>)

runInstancesSetTokenCommand(f, name, tok, readOK, writeOK) ==
    SetTokenLoaded(LoadWithoutValidation(NilConfig, f, readOK, writeOK),
                   name, tok, writeOK)

SetDefaultLoaded(l, name, writeOK) ==
    IF l.err.isErr THEN LoadFailed(l)
    ELSE AfterCall(SetDefaultInstance(l.cfg.Instances, name), l.file,
                   writeOK, << "failed", "to", "set", "default" >>)

runInstancesSetDefaultCommand(f, name, readOK, writeOK) ==
    SetDefaultLoaded(LoadWithoutValidation(NilConfig, f, readOK, writeOK),
                     name, writeOK)

RemoveLoaded(l, name, writeOK) ==
    IF l.err.isErr THEN LoadFailed(l)
    ELSE AfterCall(RemoveInstance(l.cfg.Instances, name), l.file,
                   writeOK, << "failed", "to", "remove", "instance" >>)

runInstancesRemoveCommand(f, name, readOK, writeOK) ==
    RemoveLoaded(LoadWithoutValidation(NilConfig, f, readOK, writeOK),
                 name, writeOK)

\* lines 126-144: the test returned e; "" when the instance is added
TestVerdict(e) ==
    IF ~e.isErr THEN ""
    ELSE IF IsConnectionError(e) THEN "connection test failed"
    ELSE IF Contains(e.msg, << "401" >>)
              \/ Contains(e.msg, Words(<< "authentication", "failed" >>))
    THEN "authentication failed"
    ELSE ""

AddLoaded(l, name, fqdn, tok, isDefault, verdict, writeOK) ==
    IF l.err.isErr THEN LoadFailed(l)
    ELSE IF verdict /= "" THEN Ended(l.file, l.global, Err(<< verdict >>))
    ELSE AfterCall(AddInstance(l.cfg.Instances, name, fqdn, tok, isDefault),
                   l.file, writeOK, << "failed", "to", "add", "instance" >>)

\* test: the outcome of the connection test, NoOutcome with --skip-test
runInstancesAddCommand(f, name, fqdn, tok, isDefault, test, readOK, writeOK) ==
    AddLoaded(LoadWithoutValidation(NilConfig, f, readOK, writeOK),
              name, fqdn, tok, isDefault,
              IF test = NoOutcome THEN "" ELSE TestVerdict(TestConnection(test)),
              writeOK)

\* the client and the index of its instance, 0 with an error
Bound(f, global, err, bound) ==
    [file |-> f, global |-> global, err |-> err, bound |-> bound]

ClientLoaded(l, instanceName) ==
    IF l.err.isErr
    THEN Bound(l.file, l.global,
               Wrap(<< "failed", "to", "load", "config" >>, l.err), 0)
    ELSE IF instanceName = ""
    THEN Bound(l.file, l.global, ErrNil, GetDefaultInstance(l.cfg.Instances))
    ELSE IF GetInstanceByName(l.cfg.Instances, instanceName) = 0
    THEN Bound(l.file, l.global,
               Err(Words(<< "instance", "'" \o instanceName \o "'", "not",
                            "found", "in", "config" >>)), 0)
    ELSE Bound(l.file, l.global, ErrNil,
               GetInstanceByName(l.cfg.Instances, instanceName))

NewClientForInstance(f, instanceName, readOK, writeOK) ==
    ClientLoaded(Load(NilConfig, f, readOK, writeOK), instanceName)

\* a command ended as r
Finish(r, ran) ==
    /\ file' = r.file
    /\ globalConfig' = r.global
    /\ history' = << [ran EXCEPT !.had = file.exists] >>
    /\ UNCHANGED << pc, flagVars, showVars, resolveVars, lastLine, prevLen,
                    initialized, out, notices, retErr, loopVars, pre, outcome,
                    remoteVars, parseVars >>

\* coolify-cli config init
ConfigInit ==
    \E readOK \in BOOLEAN, writeOK \in BOOLEAN :
        \E r \in {runConfigInitCommand(file, readOK, writeOK)} :
            /\ pc = "start"
            /\ Finish(r, Ran("config init", "", "", FALSE, NoOutcome, r.err, 0))

\* coolify-cli instances set token <name> <token>
InstancesSetToken ==
    \E name \in InstanceNames, tok \in InstanceTokens,
       readOK \in BOOLEAN, writeOK \in BOOLEAN :
        \E r \in {runInstancesSetTokenCommand(file, name, tok, readOK, writeOK)} :
            /\ pc = "start"
            /\ Finish(r, Ran("instances set token", name, tok, FALSE,
                             NoOutcome, r.err, 0))

\* coolify-cli instances set default <name>
InstancesSetDefault ==
    \E name \in InstanceNames, readOK \in BOOLEAN, writeOK \in BOOLEAN :
        \E r \in {runInstancesSetDefaultCommand(file, name, readOK, writeOK)} :
            /\ pc = "start"
            /\ Finish(r, Ran("instances set default", name, "", FALSE,
                             NoOutcome, r.err, 0))

\* coolify-cli instances remove <name>
InstancesRemove ==
    \E name \in InstanceNames, readOK \in BOOLEAN, writeOK \in BOOLEAN :
        \E r \in {runInstancesRemoveCommand(file, name, readOK, writeOK)} :
            /\ pc = "start"
            /\ Finish(r, Ran("instances remove", name, "", FALSE,
                             NoOutcome, r.err, 0))

\* coolify-cli instances add [-d] [--skip-test] <name> <fqdn> <token>
InstancesAdd ==
    \E name \in InstanceNames, fqdn \in InstanceFQDNs, tok \in InstanceTokens,
       makeDefault \in BOOLEAN, test \in TestOutcomes \cup {NoOutcome},
       readOK \in BOOLEAN, writeOK \in BOOLEAN :
        \E r \in {runInstancesAddCommand(file, name, fqdn, tok, makeDefault,
                                         test, readOK, writeOK)} :
            /\ pc = "start"
            /\ Finish(r, Ran("instances add", name, tok, makeDefault, test,
                             r.err, 0))

\* a command that talks to an instance: client.NewClientForInstance
ClientCommand ==
    \E name \in InstanceNames \cup {""}, readOK \in BOOLEAN, writeOK \in BOOLEAN :
        \E r \in {NewClientForInstance(file, name, readOK, writeOK)} :
            /\ pc = "start"
            /\ Finish(r, Ran("client", name, "", FALSE, NoOutcome, r.err,
                             r.bound))

InitConfig ==
    /\ InitLocals
    /\ InitParseVars
    /\ InitShowVars
    /\ InitResolveVars
    /\ InitConfigVars
    /\ follow = FALSE
    /\ tail = 0
    /\ verbose = FALSE
    /\ requestIDs = FALSE

NextConfig ==
    \/ ConfigInit
    \/ InstancesSetToken
    \/ InstancesSetDefault
    \/ InstancesRemove
    \/ InstancesAdd
    \/ ClientCommand

SpecConfig == InitConfig /\ [][NextConfig]_vars

\* ------------------------------------------------------------------------
\* The registry methods called on one Config in memory
\* ------------------------------------------------------------------------
InstanceValues ==
    {Instance(fqdn, name, tok, def) :
        fqdn \in InstanceFQDNs, name \in InstanceNames,
        tok \in InstanceTokens, def \in BOOLEAN}

InstanceLists == UNION {[1..n -> InstanceValues] : n \in 0..MaxInstances}

\* a call returned c
Return(c, ran) ==
    /\ globalConfig' = Config(c.Instances)
    /\ history' = << ran >>
    /\ UNCHANGED << pc, flagVars, showVars, resolveVars, file, lastLine,
                    prevLen, initialized, out, notices, retErr, loopVars, pre,
                    outcome, remoteVars, parseVars >>

CallAddInstance ==
    \E name \in InstanceNames, fqdn \in InstanceFQDNs, tok \in InstanceTokens,
       isDefault \in BOOLEAN :
        \E c \in {AddInstance(globalConfig.Instances, name, fqdn, tok, isDefault)} :
            /\ pc = "start"
            /\ Return(c, Ran("AddInstance", name, tok, isDefault, NoOutcome,
                             c.err, 0))

CallSetInstanceToken ==
    \E name \in InstanceNames, tok \in InstanceTokens :
        \E c \in {SetInstanceToken(globalConfig.Instances, name, tok)} :
            /\ pc = "start"
            /\ Return(c, Ran("SetInstanceToken", name, tok, FALSE, NoOutcome,
                             c.err, 0))

CallSetDefaultInstance ==
    \E name \in InstanceNames :
        \E c \in {SetDefaultInstance(globalConfig.Instances, name)} :
            /\ pc = "start"
            /\ Return(c, Ran("SetDefaultInstance", name, "", FALSE, NoOutcome,
                             c.err, 0))

CallRemoveInstance ==
    \E name \in InstanceNames :
        \E c \in {RemoveInstance(globalConfig.Instances, name)} :
            /\ pc = "start"
            /\ Return(c, Ran("RemoveInstance", name, "", FALSE, NoOutcome,
                             c.err, 0))

InitRegistry ==
    /\ InitLocals
    /\ InitParseVars
    /\ InitShowVars
    /\ InitResolveVars
    /\ follow = FALSE
    /\ tail = 0
    /\ verbose = FALSE
    /\ requestIDs = FALSE
    /\ file = NoFile
    /\ history = <<>>
    /\ globalConfig \in
          {Config(l) : l \in {is \in InstanceLists :
                                 Cardinality(Defaults(is)) <= 1}}

NextRegistry ==
    \/ CallAddInstance
    \/ CallSetInstanceToken
    \/ CallSetDefaultInstance
    \/ CallRemoveInstance

SpecRegistry == InitRegistry /\ [][NextRegistry]_vars

\* the same calls on a Config in which exactly one instance is marked default
InitDefaulted ==
    /\ InitRegistry
    /\ Cardinality(Defaults(globalConfig.Instances)) = 1

SpecDefaulted == InitDefaulted /\ [][NextRegistry]_vars

\* ------------------------------------------------------------------------
\* config.Load and config.LoadWithoutValidation called in one process, in
\* any order: globalConfig is kept from call to call
\* ------------------------------------------------------------------------
\* a load returned l
Returned(l, ran) ==
    /\ file' = l.file
    /\ globalConfig' = l.global
    /\ history' = << [ran EXCEPT !.had = file.exists] >>
    /\ UNCHANGED << pc, flagVars, showVars, resolveVars, lastLine, prevLen,
                    initialized, out, notices, retErr, loopVars, pre, outcome,
                    remoteVars, parseVars >>

CallLoad ==
    \E readOK \in BOOLEAN, writeOK \in BOOLEAN :
        \E l \in {Load(globalConfig, file, readOK, writeOK)} :
            /\ pc = "start"
            /\ Returned(l, Ran("Load", "", "", FALSE, NoOutcome, l.err,
                               IF l.cfg.isNil THEN 0
                               ELSE GetDefaultInstance(l.cfg.Instances)))

CallLoadWithoutValidation ==
    \E readOK \in BOOLEAN, writeOK \in BOOLEAN :
        \E l \in {LoadWithoutValidation(globalConfig, file, readOK, writeOK)} :
            /\ pc = "start"
            /\ Returned(l, Ran("LoadWithoutValidation", "", "", FALSE,
                               NoOutcome, l.err,
                               IF l.cfg.isNil THEN 0
                               ELSE GetDefaultInstance(l.cfg.Instances)))

\* the process starts with globalConfig nil; the file is missing or holds
\* any list of instances
InitLoad ==
    /\ InitLocals
    /\ InitParseVars
    /\ InitShowVars
    /\ InitResolveVars
    /\ follow = FALSE
    /\ tail = 0
    /\ verbose = FALSE
    /\ requestIDs = FALSE
    /\ file \in {NoFile} \cup {FileOf(Marshal(l)) : l \in InstanceLists}
    /\ globalConfig = NilConfig
    /\ history = <<>>

NextLoad == CallLoad \/ CallLoadWithoutValidation

SpecLoad == InitLoad /\ [][NextLoad]_vars

\* ------------------------------------------------------------------------
\* Vocabulary of the properties
\* ------------------------------------------------------------------------
\* the LogLines of a sequence of raw lines: trimmed, the blank ones left out
RECURSIVE LogLines(_)
LogLines(lines) ==
    IF lines = <<>> THEN <<>>
    ELSE IF TrimSpace(Head(lines)) = <<>> THEN LogLines(Tail(lines))
    ELSE << TrimSpace(Head(lines)) >> \o LogLines(Tail(lines))

IsPrefix(a, b) == Len(a) <= Len(b) /\ SubSeq(b, 1, Len(a)) = a

IsSuffix(a, b) == Len(a) <= Len(b) /\ SubSeq(b, Len(b) - Len(a) + 1, Len(b)) = a

LastN(s, n) == IF Len(s) > n THEN SubSeq(s, Len(s) - n + 1, Len(s)) ELSE s

NoBlank(lines) == \A i \in 1..Len(lines) : TrimSpace(lines[i]) /= <<>>

\* a poll of the follow loop has handled what its fetch returned
Polled == follow /\ outcome /= NoOutcome

FetchFailed == GetApplicationLogs(outcome).err.isErr

\* the transport could not reach the instance
Unreachable == outcome.net = "down"

\* the raw lines of the fetched blob, one trailing blank line dropped
Fetched == PollLines(GetApplicationLogs(outcome).logs)

\* a successful poll in TRACKING state
TrackingPoll ==
    /\ Polled
    /\ pc \in {"waiting", "crashed"}
    /\ ~FetchFailed
    /\ pre.initialized

\* the poll printed the LogLines of seg: all of them, or, when FormatLogLine
\* panicked on the way, those before the panic
Shown(seg) ==
    /\ IsPrefix(out, LogLines(seg))
    /\ pc = "waiting" => out = LogLines(seg)

\* ------------------------------------------------------------------------
\* C1  Pure-append monotonicity.  The remote log only grows and holds no blank
\* line; a poll in TRACKING state that fetched the log with k >= 0 lines more
\* than the poll before it prints exactly those k lines, in order.
\* ------------------------------------------------------------------------
C1_PureAppendMonotonicity ==
    (/\ TrackingPoll
     /\ pc = "waiting"
     /\ seenPrev >= 1
     /\ NoBlank(SubSeq(remote, 1, seen)))
    => out = LogLines(SubSeq(remote, seenPrev + 1, seen))

\* ------------------------------------------------------------------------
\* C2  Rotation safety.  The last line of B1 is not blank, B3 holds it
\* nowhere, and tailLimit >= 1.
\* ------------------------------------------------------------------------
\* no line of the fetched blob is the line the previous poll recorded
NoAnchor ==
    \A i \in 1..Len(Fetched) : TrimSpace(Fetched[i]) /= TrimSpace(pre.lastLine)

Rotated ==
    /\ TrackingPoll
    /\ tail >= 1
    /\ TrimSpace(pre.lastLine) /= <<>>
    /\ Len(Fetched) >= 1
    /\ NoAnchor

\* C2 as stated: whatever the lengths of B1 and B3, the poll prints at most
\* tailLimit lines, all from the tail of B3.
C2_RotationSafetyAnyLength ==
    Rotated => /\ Len(out) <= tail
               /\ pc = "waiting" => IsSuffix(out, LogLines(Fetched))

\* C2 amended: when B3 has no more raw lines than B1 had, the poll prints the
\* LogLines among the last tailLimit raw lines of B3, so at most tailLimit
\* lines; when B3 has more raw lines than B1 had, it prints the LogLines among
\* the raw lines of B3 past the first len(B1), however many they are.
C2_RotationSafety ==
    Rotated =>
        /\ Len(Fetched) <= pre.prevLen
               => (Len(out) <= tail /\ Shown(LastN(Fetched, tail)))
        /\ Len(Fetched) > pre.prevLen
               => Shown(SubSeq(Fetched, pre.prevLen + 1, Len(Fetched)))

C2_Witness ==
    /\ Rotated
    /\ pc = "waiting"
    /\ Len(Fetched) <= pre.prevLen
    /\ Len(Fetched) > tail
    /\ Len(out) = tail

\* ------------------------------------------------------------------------
\* C3  Unchanged content emits nothing.  In TRACKING state a successful fetch
\* of the same blob as the fetch before it (the remote log did not grow in
\* between) prints no line and no notice.
\* ------------------------------------------------------------------------
C3_UnchangedEmitsNothing ==
    (TrackingPoll /\ seenPrev = seen) => (out = <<>> /\ notices = <<>>)

\* ------------------------------------------------------------------------
\* C4  First-poll windowing.  Starting UNINITIALIZED with tailLimit >= 1, the
\* first successful poll of a blob with more than tailLimit LogLines prints
\* exactly its last tailLimit LogLines.
\* ------------------------------------------------------------------------
C4_FirstPollWindow ==
    (/\ Polled
     /\ pc = "waiting"
     /\ ~FetchFailed
     /\ ~pre.initialized
     /\ tail >= 1
     /\ Len(LogLines(Fetched)) > tail)
    => out = LastN(LogLines(Fetched), tail)

\* ------------------------------------------------------------------------
\* C5  A failed fetch in follow mode mutates nothing: lastLine, prevLen and
\* initialized are what they were when the poll began, and no log line is
\* printed.
\* ------------------------------------------------------------------------
C5_FailedFetchMutatesNothing ==
    (Polled /\ FetchFailed) =>
        /\ lastLine = pre.lastLine
        /\ prevLen = pre.prevLen
        /\ initialized = pre.initialized
        /\ out = <<>>

C5_Witness ==
    /\ Polled
    /\ pc = "waiting"
    /\ FetchFailed
    /\ pre.initialized
    /\ pre.lastLine /= <<>>

\* ------------------------------------------------------------------------
\* C6  Follow mode never terminates on its own: once started, followLogs is
\* waiting for a tick or fetching, unless it was cancelled from outside; it
\* neither returns nor dies.
\* ------------------------------------------------------------------------
C6_FollowNeverEnds ==
    follow => pc \in {"start", "waiting", "fetching", "interrupted"}

\* ------------------------------------------------------------------------
\* C7  Failure notices follow the failure kind: the connection-lost warning
\* is printed exactly when the transport could not reach the instance, and
\* any other failed fetch prints something only when verbose is set.
\* ------------------------------------------------------------------------
C7_NoticesFollowFailureKind ==
    Polled =>
        /\ (\E i \in 1..Len(notices) : notices[i] = "ConnectionLost")
               <=> (FetchFailed /\ Unreachable)
        /\ (FetchFailed /\ ~Unreachable /\ ~verbose) => notices = <<>>

\* ------------------------------------------------------------------------
\* C8  One-shot mode surfaces every fetch failure: when the fetch failed,
\* fetchLogs returns an error and prints no log line; when it did not fail,
\* no error is returned.
\* ------------------------------------------------------------------------
C8_OneShotSurfacesFailure ==
    (~follow /\ outcome /= NoOutcome) =>
        /\ FetchFailed => (pc = "returned" /\ retErr.isErr /\ out = <<>>)
        /\ ~FetchFailed => ~retErr.isErr

C8_Witness ==
    /\ ~follow
    /\ pc = "returned"
    /\ retErr.isErr
    /\ outcome.net = "up"
    /\ outcome.status /= StatusOK
    /\ out = <<>>

\* ------------------------------------------------------------------------
\* C9  Raw preservation: the Raw field of every record the classifier returns
\* for a line is the whitespace-trimmed line as it was given, escape sequences
\* included.
\* ------------------------------------------------------------------------
C9_RawIsOriginalLine ==
    phase /= "idle" =>
        \A i \in 1..Len(recs1) : recs1[i].Raw = TrimSpace(input)

\* ------------------------------------------------------------------------
\* C10  Classification is deterministic across the wall clock.
\* ------------------------------------------------------------------------
\* well-formed ISO 8601 timestamps in UTC, with 0, 3, 6 or 9 fraction digits
ZuluTokens ==
    {"2025-08-19T06:49:35.131504808Z", "2024-01-15T14:30:45.123456Z",
     "2024-01-15T14:30:45.123Z", "2024-01-15T14:30:45Z"}

StartsWithZulu == input /= <<>> /\ input[1] \in ZuluTokens

\* C10 as stated: two calls on one line, at any two moments, return records
\* equal in every field.
C10_SameRecordAtAnyClock ==
    phase = "twice" => recs1 = recs2

\* C10 amended: two calls on one line return records equal in every field
\* other than Timestamp; the Timestamps are equal too when both calls fall in
\* the same second of the wall clock or the line starts with a well-formed
\* ISO 8601 timestamp ending in Z.
C10_SameRecordButTimestamp ==
    phase = "twice" =>
        /\ Len(recs1) = Len(recs2)
        /\ \A i \in 1..Len(recs1) :
               recs2[i] = [recs1[i] EXCEPT !.Timestamp = recs2[i].Timestamp]
        /\ (at1 = now \/ StartsWithZulu) => recs1 = recs2

C10_Witness ==
    /\ phase = "twice"
    /\ at1 /= now
    /\ StartsWithZulu
    /\ Len(input) > 1
    /\ recs1 /= <<>>
    /\ recs1 = recs2

\* ------------------------------------------------------------------------
\* C11  Message is always populated: every record the classifier returns for
\* a line has a non-empty Message.
\* ------------------------------------------------------------------------
C11_MessagePopulated ==
    phase /= "idle" =>
        \A i \in 1..Len(recs1) : recs1[i].Message /= <<>>

C13_AuthMarkerNoFields ==
    phase /= "idle" =>
        \A p \in ShapePrefixes, n \in ShapeNumbers, id \in ShapeIds :
            input = p \o AuthShape(n, id) =>
                /\ Len(recs1) = 1
                /\ recs1[1].Message = << "Auth", " ", "via", " ", "Bearer", " ", "Token" >>
                /\ recs1[1].RequestID = <<>>
                /\ recs1[1].Method = <<>>
                /\ recs1[1].URL = <<>>
                /\ recs1[1].Status = <<>>

\* C13 amended: the record has the fixed Message and empty Method, URL and
\* Status, and its RequestID is the request id of the line.
C13_AuthMarker ==
    phase /= "idle" =>
        \A p \in ShapePrefixes, n \in ShapeNumbers, id \in ShapeIds :
            input = p \o AuthShape(n, id) =>
                /\ Len(recs1) = 1
                /\ recs1[1].Message = << "Auth", " ", "via", " ", "Bearer", " ", "Token" >>
                /\ recs1[1].RequestID = << id >>
                /\ recs1[1].Method = <<>>
                /\ recs1[1].URL = <<>>
                /\ recs1[1].Status = <<>>

C13_Witness ==
    /\ phase /= "idle"
    /\ input = << "2024-01-15T14:30:45Z", " " >> \o AuthShape("3", "def456")
    /\ Len(recs1) = 1
    /\ recs1[1].RequestID = << "def456" >>

\* ------------------------------------------------------------------------
\* C14  Syslog year: for a line that starts with "Mon D HH:MM:SS",
\* extractTimestamp returns the current calendar year with the month, the day
\* and the time of the line.
\* ------------------------------------------------------------------------
SyslogDays == {"3", "4", "18"}

StartsWithSyslog ==
    /\ Len(input) >= 5
    /\ input[1] = "Jan"
    /\ input[2] = " "
    /\ input[3] \in SyslogDays
    /\ input[4] = " "
    /\ input[5] = "14:30:45"

TwoDigits(d) == IF Len(d) = 1 THEN "0" \o d ELSE d

C14_SyslogCurrentYear ==
    (phase /= "idle" /\ StartsWithSyslog) =>
        stamp = << "2026-01-" \o TwoDigits(input[3]), " ", input[5] >>

\* ------------------------------------------------------------------------
\* C15  Total timestamp: for every input, extractTimestamp returns a text of
\* the form YYYY-MM-DD HH:MM:SS.
\* ------------------------------------------------------------------------
\* a date of 10 characters, a space, a time of 8 characters
IsCanonicalText(ts) ==
    /\ Len(ts) = 3
    /\ Len(ts[1]) = 10
    /\ ts[2] = " "
    /\ Len(ts[3]) = 8

C15_TimestampTotal ==
    phase /= "idle" => IsCanonicalText(stamp)

C15_Witness ==
    /\ phase /= "idle"
    /\ input = << "2024-13-45T99:99:99Z", " ", "hello" >>
    /\ stamp = << "2026-11-03", " ", "10:00:00" >>

\* ------------------------------------------------------------------------
\* C16  TRACKING is terminal: no step sets initialized back to false, and
\* initialized becomes true exactly in the step in which a poll that fetched
\* at least one line completes.
\* ------------------------------------------------------------------------
\* this step completes a poll whose fetch succeeded with at least one line
LinePollCompletes ==
    /\ pc = "fetching"
    /\ pc' = "waiting"
    /\ ~GetApplicationLogs(outcome').err.isErr
    /\ Len(PollLines(GetApplicationLogs(outcome').logs)) >= 1

C16_TrackingIsTerminal ==
    [][/\ initialized => initialized'
       /\ ~initialized => (initialized' <=> LinePollCompletes)]_vars

C16_Witness ==
    /\ Polled
    /\ pc = "waiting"
    /\ pre.initialized
    /\ initialized
    /\ ~FetchFailed
    /\ Len(Fetched) = 0

\* ------------------------------------------------------------------------
\* C17  At most one fetch is in flight: a fetch starts only when none is in
\* flight, however many ticks pass while one runs, and lastLine, prevLen and
\* initialized change only in the step in which the fetch in flight returns.
\* ------------------------------------------------------------------------
C17_OneFetchInFlight ==
    /\ [](inflight \in {0, 1})
    /\ [][/\ inflight' > inflight => inflight = 0
          /\ << lastLine, prevLen, initialized >>' /= << lastLine, prevLen, initialized >>
                 => (inflight = 1 /\ inflight' = 0)]_vars

\* a tick arrives while the fetch of a poll in TRACKING state is in flight
C17_Witness ==
    /\ pc = "fetching"
    /\ inflight = 1
    /\ ticks = 1
    /\ pre.initialized

\* ------------------------------------------------------------------------
\* C18  The --tail flag bounds the output: with --tail n, n >= 1, the one-shot
\* command and the first poll of follow mode print the last n LogLines of the
\* fetched log (all of them when there are fewer) and nothing else.
\* ------------------------------------------------------------------------
C18_TailBoundsOutput ==
    (/\ outcome /= NoOutcome
     /\ ~FetchFailed
     /\ tail >= 1
     /\ \/ ~follow /\ pc = "returned"
        \/ follow /\ pc = "waiting" /\ ~pre.initialized)
    => out = LastN(LogLines(Split(GetApplicationLogs(outcome).logs)), tail)

\* ------------------------------------------------------------------------
\* C19  Tokens are masked on display: what config show and instances list
\* print for an instance with a non-empty token never contains the complete
\* token.
\* ------------------------------------------------------------------------
C19_TokenNeverShownWhole ==
    (command /= "none" /\ token /= <<>>) => ~Contains(display, token)

\* ------------------------------------------------------------------------
\* C20  Name resolution.  When the applications can be listed and exactly one
\* of them has the identifier as its name, the identifier resolves to the
\* UUID of that application; when the identifier is not the UUID of an
\* application and no application or more than one has it as its name, the
\* resolution fails and no logs are fetched.
\* ------------------------------------------------------------------------
Named == {i \in 1..Len(apps) : apps[i].Name = ident}

IsAppUUID == \E i \in 1..Len(apps) : apps[i].UUID = ident

C20_NameResolution ==
    pc /= "args" =>
        /\ (listed /\ Cardinality(Named) = 1) =>
               /\ ~resolved.err.isErr
               /\ \A i \in Named : resolved.uuid = apps[i].UUID
        /\ (~IsAppUUID /\ Cardinality(Named) /= 1) =>
               /\ resolved.err.isErr
               /\ outcome = NoOutcome

\* ------------------------------------------------------------------------
\* C21: the documented cloud setup works: `config init` that finds no
\* config file, followed by a successful `instances set token cloud <token>`
\* with a non-empty token, leaves a file that a validating Load accepts and
\* whose default instance is cloud carrying that token
\* ------------------------------------------------------------------------
Latest == history[1]

\* the latest command was a successful `config init` that found no file
FreshInit ==
    /\ history /= <<>>
    /\ Latest.cmd = "config init"
    /\ ~Latest.had
    /\ ~Latest.err.isErr

\* the latest command set a non-empty token of cloud
CloudTokenSet ==
    /\ history /= <<>>
    /\ Latest.cmd = "instances set token"
    /\ Latest.name = "cloud"
    /\ Latest.token /= ""
    /\ ~Latest.err.isErr

\* a fresh process loads f with validation: cloud with tok is the default
LoadsCloud(l, tok) ==
    /\ ~l.err.isErr
    /\ l.cfg.Instances[GetDefaultInstance(l.cfg.Instances)].Name = "cloud"
    /\ l.cfg.Instances[GetDefaultInstance(l.cfg.Instances)].Token = tok

C21_CloudSetupWorks ==
    [][(FreshInit /\ CloudTokenSet')
          => LoadsCloud(Load(NilConfig, file', TRUE, TRUE), Latest'.token)]_vars

C21_Witness ==
    /\ CloudTokenSet
    /\ file = FileOf(Marshal(<< Instance(CloudFQDN, "cloud", "tok-1", TRUE) >>))

\* ------------------------------------------------------------------------
\* C22: starting from a Config with at most one default, after any calls
\* of AddInstance, SetInstanceToken, SetDefaultInstance and RemoveInstance
\* at most one instance is marked default, and after a successful
\* SetDefaultInstance(name) or AddInstance(name, ..., true) the instance
\* marked default is the one called name
\* ------------------------------------------------------------------------
MadeDefault ==
    /\ history /= <<>>
    /\ ~Latest.err.isErr
    /\ \/ Latest.cmd = "SetDefaultInstance"
       \/ Latest.cmd = "AddInstance" /\ Latest.isDefault

C22_AtMostOneDefault ==
    /\ Cardinality(Defaults(globalConfig.Instances)) <= 1
    /\ MadeDefault =>
          \E i \in 1..Len(globalConfig.Instances) :
              /\ Defaults(globalConfig.Instances) = {i}
              /\ globalConfig.Instances[i].Name = Latest.name

\* the default moved to the second of several instances
C22_Witness ==
    /\ MadeDefault
    /\ Latest.cmd = "SetDefaultInstance"
    /\ Len(globalConfig.Instances) >= 2
    /\ Defaults(globalConfig.Instances) = {2}

\* ------------------------------------------------------------------------
\* C23: a successful fetch of a blob without LogLines (the empty string, or
\* only blank and whitespace-only lines) prints nothing and leaves lastLine,
\* prevLen and initialized as they were when the poll began
\* ------------------------------------------------------------------------
C23_BlankBlobChangesNothing ==
    (/\ Polled
     /\ ~FetchFailed
     /\ LogLines(Split(GetApplicationLogs(outcome).logs)) = <<>>)
    => /\ out = <<>>
       /\ lastLine = pre.lastLine
       /\ prevLen = pre.prevLen
       /\ initialized = pre.initialized

\* ------------------------------------------------------------------------
\* C24: for every tailLimit >= 0 and every non-empty L, the first poll and
\* a re-seed (TRACKING, anchor not found, len(L) <= previousCount) both
\* print L[max(0, len(L) - tailLimit):], L being the lines of the blob
\* ------------------------------------------------------------------------
FirstPoll ==
    /\ Polled
    /\ pc \in {"waiting", "crashed"}
    /\ ~FetchFailed
    /\ ~pre.initialized
    /\ Len(Fetched) >= 1

ReSeed ==
    /\ TrackingPoll
    /\ Len(Fetched) >= 1
    /\ NoAnchor
    /\ Len(Fetched) <= pre.prevLen

C24_TailWindowFormula ==
    (FirstPoll \/ ReSeed) => Shown(LastN(Fetched, tail))

\* ------------------------------------------------------------------------
\* C25: in TRACKING state, when the recorded last line occurs (by trimmed
\* content) in L, the poll prints exactly the lines after its last
\* occurrence, whatever the recorded line is, an empty one included
\* ------------------------------------------------------------------------
AnchorAt ==
    {i \in 1..Len(Fetched) : TrimSpace(Fetched[i]) = TrimSpace(pre.lastLine)}

C25_AnchorFound ==
    (TrackingPoll /\ AnchorAt /= {})
    => Shown(SubSeq(Fetched, Max(AnchorAt) + 1, Len(Fetched)))

\* ------------------------------------------------------------------------
\* C26: in TRACKING state, when the recorded last line does not occur in L
\* and len(L) > previousCount, the poll prints exactly the last
\* len(L) - previousCount lines of L, that is L[previousCount:]; L is the
\* sequence of the non-empty, trimmed lines of the blob
\* ------------------------------------------------------------------------
LengthDelta ==
    /\ TrackingPoll
    /\ \A i \in 1..Len(LogLines(Fetched)) :
           LogLines(Fetched)[i] /= TrimSpace(pre.lastLine)
    /\ Len(LogLines(Fetched)) > pre.prevLen

C26_LengthDelta ==
    (LengthDelta /\ pc = "waiting")
    => out = SubSeq(LogLines(Fetched), pre.prevLen + 1, Len(LogLines(Fetched)))

\* ------------------------------------------------------------------------
\* C27: after every successful poll whose L is non-empty, whichever branch
\* fired and whether or not anything was printed, lastLine is the last
\* element of L, prevLen is len(L) and initialized is true; L is the
\* sequence of the non-empty, trimmed lines of the blob
\* ------------------------------------------------------------------------
ProductivePoll ==
    /\ Polled
    /\ ~FetchFailed
    /\ LogLines(Fetched) /= <<>>

C27_StateAfterProductivePoll ==
    (ProductivePoll /\ pc = "waiting")
    => /\ TrimSpace(lastLine) = LogLines(Fetched)[Len(LogLines(Fetched))]
       /\ prevLen = Len(LogLines(Fetched))
       /\ initialized

\* ------------------------------------------------------------------------
\* C28: in every poll the lines printed are a contiguous suffix of L, the
\* lines of the current blob, in their original order
\* ------------------------------------------------------------------------
C28_OrderedSuffix ==
    (Polled /\ ~FetchFailed) => IsSuffix(out, LogLines(Fetched))

\* ------------------------------------------------------------------------
\* C29: first match wins among the line shapes: every record is built by
\* the earliest shape that matches its line, in the order HTTP request, HTTP
\* response, auth marker, trace-id marker, generic with correlation id,
\* generic without id, fallback
\* ------------------------------------------------------------------------
\* the k-th shape tried on its own
MatchOf(k, line) ==
    CASE k = 1 -> FindStringSubmatch(httpRequestPattern, line)
      [] k = 2 -> FindStringSubmatch(httpResponsePattern, line)
      [] k = 3 -> FindStringSubmatch(authPattern, line)
      [] k = 4 -> FindAtStart(traceIdPattern, line)
      [] k = 5 -> FindStringSubmatch(genericInfoPattern, line)
      [] OTHER -> FindStringSubmatch(simpleInfoPattern, line)

Matching(line) == {k \in 1..6 : MatchOf(k, line).ok}

Earliest(line) == IF Matching(line) = {} THEN 7 ELSE Least(Matching(line))

Fields(rec) == << rec.RequestID, rec.Method, rec.URL, rec.Status, rec.Message >>

\* rec is what the k-th shape makes of its match m
BuiltAs(k, rec, m) ==
    Fields(rec) =
        CASE k = 1 -> << m.caps[2], m.caps[3], m.caps[4], <<>>,
                         m.caps[3] \o << " " >> \o m.caps[4] >>
          [] k = 2 -> << m.caps[2], <<>>, <<>>, m.caps[3],
                         << "Response:", " " >> \o m.caps[3] >>
          [] k = 3 -> << m.caps[2], <<>>, <<>>, <<>>,
                         << "Auth", " ", "via", " ", "Bearer", " ", "Token" >> >>
          [] k = 4 -> << m.caps[1], <<>>, <<>>, <<>>,
                         << "traceId:", " ", "\"" >> \o m.caps[1] \o << "\"" >> >>
          [] k = 5 -> << m.caps[2], <<>>, <<>>, <<>>, m.caps[3] >>
          [] k = 6 -> << <<>>, <<>>, <<>>, <<>>, m.caps[2] >>
          [] OTHER -> << <<>>, <<>>, <<>>, <<>>, FallbackMessage(rec.Raw) >>

BuiltByEarliest(rec, k) == BuiltAs(k, rec, MatchOf(k, rec.Raw))

C29_FirstShapeWins ==
    phase /= "idle" =>
        \A i \in 1..Len(recs1) : BuiltByEarliest(recs1[i], Earliest(recs1[i].Raw))

\* a line that holds a response and, after it, a request: a request record
C29_Witness ==
    /\ phase /= "idle"
    /\ input = ResponseLine \o << " " >> \o RequestLine
    /\ Len(recs1) = 1
    /\ Matching(recs1[1].Raw) = {1, 2, 5, 6}
    /\ recs1[1].Method = << "GET" >>

\* ------------------------------------------------------------------------
\* C30: first structural match wins for timestamps: extractTimestamp
\* returns the canonical reformatting of the text captured by the first
\* pattern, in list order, whose expression matches the line; and a more
\* specific format stands before a less specific one that matches a prefix
\* of it, so no later pattern captures more of the line than the first
\* ------------------------------------------------------------------------
TsMatching(line) ==
    {i \in 1..Len(timestampPatterns) :
        TsRegexMatch(timestampPatterns[i], line).ok}

\* how much of the line a capture covers
CapSize(cap) ==
    StrLen(cap.toks) + cap.frac + (IF cap.z THEN 1 ELSE 0)
        + (IF cap.tz THEN 1 ELSE 0)

\* the canonical texts of the time that the captured text denotes: none
\* when a field is out of range; a syslog text has no year
Reformatted(pt, cap) ==
    CASE pt.kind \in {"iso", "unix"} ->
             IF DateOf(cap.toks[1]) = "" THEN {}
             ELSE {Canonical(DateOf(cap.toks[1]), ClockOf(cap.toks[1]))}
      [] pt.kind = "syslog" ->
             {TsParse(pt, cap), TsParseWithYear(cap, "2026")} \ {<<>>}
      [] OTHER ->
             IF DateOf(cap.toks[1]) = "" THEN {}
             ELSE {Canonical(DateOf(cap.toks[1]), cap.toks[3])}

\* entry i is the first whose expression matches the line
FirstWins(line, i, got) ==
    /\ Reformatted(timestampPatterns[i],
                   TsRegexMatch(timestampPatterns[i], line)) /= {}
          => got \in Reformatted(timestampPatterns[i],
                                 TsRegexMatch(timestampPatterns[i], line))
    /\ \A j \in TsMatching(line) :
           CapSize(TsRegexMatch(timestampPatterns[j], line))
               <= CapSize(TsRegexMatch(timestampPatterns[i], line))

C30_FirstTimestampPatternWins ==
    (phase /= "idle" /\ TsMatching(input) /= {})
    => FirstWins(input, Least(TsMatching(input)), stamp)

\* ------------------------------------------------------------------------
\* C31: field shape of records: every record the classifier returns has
\* Level "INFO" and a non-empty Timestamp, has Method non-empty exactly when
\* URL is non-empty, and never has Status non-empty together with Method or
\* URL
\* ------------------------------------------------------------------------
FieldShape(rec) ==
    /\ rec.Level = << "INFO" >>
    /\ rec.Timestamp /= <<>>
    /\ (rec.Method /= <<>>) <=> (rec.URL /= <<>>)
    /\ ~(rec.Status /= <<>> /\ (rec.Method /= <<>> \/ rec.URL /= <<>>))

C31_FieldShape ==
    phase /= "idle" => \A i \in 1..Len(recs1) : FieldShape(recs1[i])

\* a line that holds a response and a request: the record is a request
C31_Witness ==
    /\ phase /= "idle"
    /\ input = ResponseLine \o << " " >> \o RequestLine
    /\ Len(recs1) = 1
    /\ recs1[1].Method /= <<>>
    /\ recs1[1].URL /= <<>>
    /\ recs1[1].Status = <<>>

\* ------------------------------------------------------------------------
\* C32: formatting never fails: FormatLogLine returns for every record the
\* classifier can produce and every formatter setting, so a poll that emits
\* records completes and updates lastLine, prevLen and initialized
\* ------------------------------------------------------------------------
C32_FormattingNeverFails ==
    (Polled /\ ~FetchFailed /\ Fetched /= <<>>)
    => /\ pc /= "crashed"
       /\ lastLine = Fetched[Len(Fetched)]
       /\ prevLen = Len(Fetched)
       /\ initialized

\* ------------------------------------------------------------------------
\* C33: Load validates the default token: in one process, for every order
\* of calls to Load and LoadWithoutValidation, a Load that returns a
\* configuration without error returns one whose default instance has a
\* non-empty token
\* ------------------------------------------------------------------------
\* the latest call was Load and it returned globalConfig without error
LoadReturned ==
    /\ history /= <<>>
    /\ Latest.cmd = "Load"
    /\ ~Latest.err.isErr

C33_LoadValidatesDefaultToken ==
    LoadReturned
    => /\ Latest.bound /= 0
       /\ globalConfig.Instances[Latest.bound].Token /= ""

\* ------------------------------------------------------------------------
\* C34: the saved configuration stays loadable: starting from the default
\* configuration, after any sequence of successful instances commands (add,
\* set token, set default, remove) the saved file can be loaded again by
\* LoadWithoutValidation, so a further instances command can still run
\* ------------------------------------------------------------------------
\* the latest command was an instances command that saved the file
InstancesCommandSaved ==
    /\ history /= <<>>
    /\ Latest.cmd \in {"instances add", "instances set token",
                       "instances set default", "instances remove"}
    /\ ~Latest.err.isErr

C34_SavedConfigLoadable ==
    InstancesCommandSaved
    => ~LoadWithoutValidation(NilConfig, file, TRUE, TRUE).err.isErr

\* ------------------------------------------------------------------------
\* C35: exactly one default while instances exist: starting from a Config
\* in which exactly one instance is marked default, after any sequence of
\* AddInstance, SetInstanceToken, SetDefaultInstance and RemoveInstance
\* calls, whenever the instance list is non-empty exactly one instance is
\* marked default
\* ------------------------------------------------------------------------
C35_ExactlyOneDefault ==
    Len(globalConfig.Instances) > 0
    => Cardinality(Defaults(globalConfig.Instances)) = 1

\* ------------------------------------------------------------------------
\* C36: failing registry operations change nothing: AddInstance with a name
\* that exists, and SetInstanceToken, SetDefaultInstance and RemoveInstance
\* with a name that does not, return an error and leave the instance list,
\* every token and every default mark as they were; so instance names that
\* are pairwise distinct stay pairwise distinct
\* ------------------------------------------------------------------------
NamesOf(instances) == {instances[k].Name : k \in 1..Len(instances)}

DistinctNames(instances) == Cardinality(NamesOf(instances)) = Len(instances)

\* the call that led to the next state was given a name it must refuse
Refused ==
    IF Latest'.cmd = "AddInstance"
    THEN Latest'.name \in NamesOf(globalConfig.Instances)
    ELSE Latest'.name \notin NamesOf(globalConfig.Instances)

C36_FailedCallsChangeNothing ==
    [][/\ Refused => (Latest'.err.isErr /\ globalConfig' = globalConfig)
       /\ Latest'.err.isErr => globalConfig' = globalConfig
       /\ DistinctNames(globalConfig.Instances)
             => DistinctNames(globalConfig'.Instances)]_vars

\* AddInstance with isDefault was refused for the name of an instance that
\* is not the default, and the default is still marked
C36_Witness ==
    /\ history /= <<>>
    /\ Latest.cmd = "AddInstance"
    /\ Latest.isDefault
    /\ Latest.err.isErr
    /\ Len(globalConfig.Instances) = 2
    /\ DistinctNames(globalConfig.Instances)
    /\ globalConfig.Instances[1].Default
    /\ globalConfig.Instances[2].Name = Latest.name

\* ------------------------------------------------------------------------
\* C37: a named instance is usable when it is configured:
\* NewClientForInstance(name) with a non-empty name returns a client bound
\* to the instance called name whenever the saved configuration holds an
\* instance of that name with a non-empty token, whatever the token of the
\* default instance; and it never returns a client bound to an instance
\* whose token is empty
\* ------------------------------------------------------------------------
\* the latest command asked for a client of a named instance, and the
\* config file could be read
NamedClientAsked ==
    /\ history /= <<>>
    /\ Latest.cmd = "client"
    /\ Latest.name /= ""
    /\ ~Contains(Latest.err.msg, Words(<< "failed", "to", "read" >>))

\* the saved configuration holds the instance asked for, with a token
Configured(instances, name) ==
    /\ GetInstanceByName(instances, name) /= 0
    /\ instances[GetInstanceByName(instances, name)].Token /= ""

C37_NamedInstanceUsable ==
    NamedClientAsked
    => /\ Configured(Unmarshal(file.data), Latest.name)
             => /\ ~Latest.err.isErr
                /\ Latest.bound
                      = GetInstanceByName(Unmarshal(file.data), Latest.name)
       /\ Latest.bound /= 0
             => Unmarshal(file.data)[Latest.bound].Token /= ""

\* ------------------------------------------------------------------------
\* C38: the connection test gates `instances add`: without --skip-test,
\* when the test reports that the instance is unreachable or that the token
\* is rejected (HTTP 401 or 403) the command returns an error and the
\* configuration, in memory and on disk, is unchanged; the instance is
\* added and saved only when the test succeeds or fails for another reason
\* ------------------------------------------------------------------------
\* the instance is unreachable, or it rejects the token
Rejected(test) ==
    \/ test.net = "down"
    \/ test.net = "up" /\ test.status \in {401, 403}

\* the next state is the end of an `instances add` that ran the connection
\* test on a config file that was there
AddTested ==
    /\ Latest'.cmd = "instances add"
    /\ Latest'.test /= NoOutcome
    /\ Latest'.had

\* nothing was added: the file is as it was, and so is the Config loaded
ConfigUnchanged ==
    /\ file' = file
    /\ ~globalConfig'.isNil => globalConfig'.Instances = Unmarshal(file.data)

C38_TestGatesAdd ==
    [][AddTested
         => /\ Rejected(Latest'.test)
                  => (Latest'.err.isErr /\ ConfigUnchanged)
            /\ ~ConfigUnchanged => ~Rejected(Latest'.test)]_vars

====
